---- MODULE Spec2Model ----
(***************************************************************************)
(* Resilient ingestion pipeline of the bond directory back end:            *)
(*   - CircuitBreaker            (lib/indiaBondInfo/circuitBreaker.js)      *)
(*   - IndiaBondInfoClient       (lib/indiaBondInfo/client.js)              *)
(*   - NSDLBondClient            (lib/indiaBondInfo/nsdlClient.js)          *)
(* SpecCB is the breaker driven by arbitrary asynchronous operations;      *)
(* SpecExec is one executor instance whose caller awaits each logical     *)
(* fetch; the fetch's attempt loop runs as the breaker's operation.        *)
(***************************************************************************)
EXTENDS Integers, Sequences, FiniteSets, Bags, TLC

\* ------------------------------------------------------------------ bounds
\* Latest clock reading the model explores (milliseconds, scaled).
MaxTime == 4
\* Total execute() calls of one breaker (caps totalRequests).
MaxRequests == 4
\* execute() calls whose operation may be in flight at once.
MaxInFlight == 2
\* options.failureThreshold / options.resetTimeout handed to the constructor.
OptFailureThreshold == 2
OptResetTimeout == 2
\* config.maxRetries, config.requestDelay, config.jitterMax, config.baseBackoffMs
\* handed to the executor's constructor.
OptMaxRetries == 1
OptRequestDelay == 1
OptJitterMax == 1
OptBaseBackoffMs == 1
\* Logical fetches invoked on one instance when callers do not await each other.
MaxConcRequests == 2
\* The pageSize argument of getAllListedSecurities.
PageSize == 2
\* Largest counter (totalCreated, totalUpdated, totalSkipped) in the stats
\* syncBonds resolves with.
MaxSyncCount == 2
\* Most spaces between the parts of a raw rating string.
MaxSpaces == 1
\* Largest value of the retry jitter Math.floor(Math.random() * 1000), scaled.
MaxBackoffJitter == 1
MaxEnrichRecords == 1
MaxSlugCalls == 2
\* runSync calls that may await syncBonds at once before the model stops
\* admitting more (the run guard keeps them to 1)
MaxRuns == 2

\* ------------------------------------------------------------------ state
VARIABLES
    state,            \* CircuitBreaker.state
    failures,         \* CircuitBreaker.failures
    lastFailureTime,  \* CircuitBreaker.lastFailureTime
    nextRetryTime,    \* CircuitBreaker.nextRetryTime
    successCount,     \* CircuitBreaker.successCount
    totalRequests,    \* CircuitBreaker.totalRequests
    emitted,          \* onStateChange notifications issued by the last step
    streak,           \* failed operations since the breaker was CLOSED with 0 failures
    now,              \* Date.now()
    calls,            \* SpecCB: bag of the execute() calls whose fn is in flight
    ev,               \* SpecCB: what the last step did to which call
    client,           \* SpecExec: the class of the executor instance
    stats,            \* SpecExec: this.stats
    lastRequestTime,  \* SpecExec: this.lastRequestTime
    cookies,          \* SpecExec: NSDL_COOKIE_NL01 and NSDL_COOKIE_NL1E are set
    fetches,          \* SpecExec: bag of the logical fetches in flight
    fev,              \* SpecExec: what the last step did to which fetch
    pages,            \* SpecPages: the frame of getAllListedSecurities
    cancelRequested,  \* SpecPages: the operator has signalled cancellation
    isRunning,        \* SpecSync: syncScheduler.js isRunning
    running,          \* SpecSync: the runSync calls awaiting syncBonds, oldest first
    sev,              \* SpecSync: what the last step did to which runSync call
    bond,             \* SpecEnrich: the bond being enriched
    bondBefore,       \* SpecEnrich: the bond before the last pass
    records,          \* SpecEnrich: the source records of the last pass
    entry,            \* SpecEnrich: the enrichment entry built from records
    pass,             \* SpecEnrich: the passes applied so far
    raw,              \* SpecRating: the argument of normalizeRating
    parts,            \* SpecRating: what raw was put together from
    normalized,       \* SpecRating: the value normalizeRating returned
    rank,             \* SpecGrade: the value getRatingRank returned, and for what
    names,            \* SpecSlug: the issuer names slugs are generated for
    slugs,            \* SpecSlug: the calls of generateSlug made, with their results
    dateString,       \* SpecDate: the argument of parseDate
    parsed,           \* SpecDate: the value parseDate returned
    rawSecurity,      \* SpecSecurity: the raw record of /listedsecurities
    security,         \* SpecSecurity: the canonical record built from it
    detectName,       \* SpecInfer: the issuer name the inference is given
    detectData,       \* SpecInfer: the raw record given to detectBondType
    detected,          \* SpecInfer: what the two inferences returned or threw
    config,           \* SpecConfig: the options object given to a constructor
    instance          \* SpecConfig: the configuration fields of the instance built

cbVars == <<state, failures, lastFailureTime, nextRetryTime, successCount,
            totalRequests, emitted, streak>>
cbCallVars == <<calls, ev>>
execVars == <<client, stats, lastRequestTime, cookies, fetches, fev>>
pageVars == <<pages, cancelRequested>>
syncVars == <<isRunning, running, sev>>
enrichVars == <<bond, bondBefore, records, entry, pass>>
ratingVars == <<raw, parts, normalized, rank>>
transformVars == <<names, slugs, dateString, parsed, rawSecurity, security>>
inferVars == <<detectName, detectData, detected>>
configVars == <<config, instance>>
jobVars == <<syncVars, enrichVars, ratingVars, transformVars, inferVars, configVars>>
vars == <<state, failures, lastFailureTime, nextRetryTime, successCount,
          totalRequests, emitted, streak, now, calls, ev,
          client, stats, lastRequestTime, cookies, fetches, fev,
          pages, cancelRequested, isRunning, running, sev,
          bond, bondBefore, records, entry, pass, raw, parts, normalized, rank,
          names, slugs, dateString, parsed, rawSecurity, security,
          detectName, detectData, detected,
          config, instance>>

\* JavaScript null for the two timestamps (compares as 0 > Null, like null).
Null == -1

STATES == {"CLOSED", "OPEN", "HALF_OPEN"}

\* this.failureThreshold = options.failureThreshold || 5
failureThreshold == IF OptFailureThreshold # 0 THEN OptFailureThreshold ELSE 5
\* this.resetTimeout = options.resetTimeout || 60000
resetTimeout == IF OptResetTimeout # 0 THEN OptResetTimeout ELSE 60000

\* class CircuitBreakerError extends Error
CircuitBreakerError ==
    [name |-> "CircuitBreakerError", isCircuitBreakerError |-> TRUE,
     message |-> "Circuit breaker is OPEN"]

\* Errors an operation can throw: plain Errors of the upstream.
UpstreamErrors ==
    {[name |-> "Error", isCircuitBreakerError |-> FALSE, message |-> m] :
        m \in {"ETIMEDOUT", "HTTP500"}}

Returned(v) == [kind |-> "return", val |-> v]
Thrown(e) == [kind |-> "throw", val |-> e]
Pending == [kind |-> "pending", val |-> "none"]

\* ------------------------------------------------------- CircuitBreaker
\* constructor
CBInit ==
    /\ state = "CLOSED"
    /\ failures = 0
    /\ lastFailureTime = Null
    /\ nextRetryTime = Null
    /\ successCount = 0
    /\ totalRequests = 0
    /\ emitted = <<>>
    /\ streak = 0

NoTransition == state' = state /\ emitted' = <<>>

\* _transition(newState), called while this.failures is f
Transition(newState, f) ==
    IF state # newState
    THEN /\ state' = newState
         /\ emitted' = <<[from |-> state, to |-> newState, failures |-> f]>>
    ELSE NoTransition

RetryDue_flipped(t, nrt) == nrt >= t
\* execute(): if (Date.now() >= this.nextRetryTime)
RetryDue(t, nrt) == t >= nrt

Rejects_never == FALSE
\* execute(): the call is rejected while OPEN before the retry time
Rejects == state = "OPEN" /\ ~RetryDue(now, nextRetryTime)

\* execute() up to the point where fn is invoked or the call is rejected
ExecuteEntry ==
    /\ totalRequests' = totalRequests + 1
    /\ IF state = "OPEN" /\ RetryDue(now, nextRetryTime)
       THEN Transition("HALF_OPEN", failures)
       ELSE NoTransition
    /\ UNCHANGED <<failures, lastFailureTime, nextRetryTime, successCount, streak>>

\* _onSuccess() that closes the circuit without clearing this.failures
OnSuccess_keepsFailures ==
    /\ successCount' = successCount + 1
    /\ IF state = "HALF_OPEN" THEN Transition("CLOSED", failures) ELSE NoTransition
    /\ failures' = failures
    /\ streak' = IF state' = "CLOSED" /\ failures' = 0 THEN 0 ELSE -1
    /\ UNCHANGED <<lastFailureTime, nextRetryTime, totalRequests>>

\* _onSuccess()
OnSuccess ==
    /\ successCount' = successCount + 1
    /\ IF state = "HALF_OPEN"
       THEN Transition("CLOSED", failures) /\ failures' = 0
       ELSE NoTransition /\ failures' = failures
    /\ streak' = IF state' = "CLOSED" /\ failures' = 0 THEN 0 ELSE -1
    /\ UNCHANGED <<lastFailureTime, nextRetryTime, totalRequests>>

TripsBreaker_gt(st, f) == st = "CLOSED" /\ f > failureThreshold
\* _onFailure(): this.state === CLOSED && this.failures >= this.failureThreshold
TripsBreaker(st, f) == st = "CLOSED" /\ f >= failureThreshold

\* _onFailure(error) called for every failed attempt rather than once
OnFailure_perAttempt ==
    /\ failures' = failures + fev'.fetch.nAttempts
    /\ lastFailureTime' = now
    /\ IF state = "HALF_OPEN"
       THEN Transition("OPEN", failures + 1) /\ nextRetryTime' = now + resetTimeout
       ELSE NoTransition /\ nextRetryTime' = nextRetryTime
    /\ streak' = -1
    /\ UNCHANGED <<successCount, totalRequests>>

\* _onFailure(error)
OnFailure ==
    /\ failures' = failures + 1
    /\ lastFailureTime' = now
    /\ IF state = "HALF_OPEN"
       THEN Transition("OPEN", failures + 1) /\ nextRetryTime' = now + resetTimeout
       ELSE IF TripsBreaker(state, failures + 1)
            THEN Transition("OPEN", failures + 1) /\ nextRetryTime' = now + resetTimeout
            ELSE NoTransition /\ nextRetryTime' = nextRetryTime
    /\ streak' = IF streak >= 0 THEN streak + 1 ELSE -1
    /\ UNCHANGED <<successCount, totalRequests>>

\* reset() that also clears the two request counters
ResetBreaker_clearsCounters ==
    /\ state' = "CLOSED"
    /\ failures' = 0
    /\ lastFailureTime' = Null
    /\ nextRetryTime' = Null
    /\ emitted' = <<>>
    /\ streak' = 0
    /\ successCount' = 0
    /\ totalRequests' = 0

\* reset()
ResetBreaker ==
    /\ state' = "CLOSED"
    /\ failures' = 0
    /\ lastFailureTime' = Null
    /\ nextRetryTime' = Null
    /\ emitted' = <<>>
    /\ streak' = 0
    /\ UNCHANGED <<successCount, totalRequests>>

\* ------------------------------------------ executors: state and helpers
\* IndiaBondInfoClient (client.js) or NSDLBondClient (nsdlClient.js)
Clients == {"IBI", "NSDL"}

\* The request methods of each class.
Methods(cl) == IF cl = "IBI" THEN {"_requestWithRetry"} ELSE {"_request", "_requestExcel"}

\* this.maxRetries = config.maxRetries || 3
maxRetries == IF OptMaxRetries # 0 THEN OptMaxRetries ELSE 3
\* this.requestDelay = config.requestDelay || 1000   (1200 in NSDLBondClient)
requestDelay == IF OptRequestDelay # 0 THEN OptRequestDelay ELSE 1000
\* this.jitterMax = config.jitterMax || 500          (600 in NSDLBondClient)
jitterMax == IF OptJitterMax # 0 THEN OptJitterMax ELSE 500
\* this.baseBackoffMs = config.baseBackoffMs || 2000 (2500 in NSDLBondClient)
baseBackoffMs == IF OptBaseBackoffMs # 0 THEN OptBaseBackoffMs ELSE 2000

\* Math.floor(Math.random() * this.jitterMax)
Jitters == 0..(jitterMax - 1)
\* Math.floor(Math.random() * 1000), scaled
BackoffJitters == 0..MaxBackoffJitter

RECURSIVE Pow2(_)
\* Math.pow(2, attempt)
Pow2(n) == IF n = 0 THEN 1 ELSE 2 * Pow2(n - 1)

\* What the upstream can answer to one physical attempt of a method:
\*   ok       200 with a usable body          s204     2xx other than 200
\*   s404     404                             s403     403
\*   html     200 with an HTML page           badxlsx  200, not a workbook
\*   ETIMEDOUT  a transport or server error
\* (client.js does not look for HTML: there an HTML page is an ok body.)
Responses(m) ==
    {"ok", "s204", "s404", "s403", "ETIMEDOUT"}
        \cup (IF m = "_requestWithRetry" THEN {} ELSE {"html"})
        \cup (IF m = "_requestExcel" THEN {"badxlsx"} ELSE {})

\* Answers that are transport or server failures: not 404, not 403 or an
\* error page, not a received payload.
OtherErrors == {"s204", "ETIMEDOUT"}

\* The error object the n-th physical attempt of a fetch raises for answer r.
ErrOf(r, n) ==
    [name |-> "Error", isCircuitBreakerError |-> FALSE, message |-> r, at |-> n]

NoError == [name |-> "none", isCircuitBreakerError |-> FALSE, message |-> "none", at |-> 0]

\* new Error(`NSDL_SESSION_EXPIRED: ${endpoint}`)
SessionExpired(n) == ErrOf("NSDL_SESSION_EXPIRED", n)

\* The empty result of a 404: null in client.js, [] in nsdlClient.js.
EmptyResult(m) == IF m = "_requestWithRetry" THEN "null" ELSE "[]"

\* A logical fetch at the start of its execute closure: the loop variables
\* (attempt, lastError), where it is suspended, and its history: physical
\* attempts issued, refreshCookies calls made for a 403 or an error page, and
\* whether every answer so far was one of OtherErrors.
NewFetch(m) ==
    [method |-> m, pc |-> "start", attempt |-> 0, lastError |-> NoError, wakeAt |-> 0,
     nAttempts |-> 0, nRefresh |-> 0, onlyOther |-> TRUE]

NoFetchEvent ==
    [type |-> "none", resp |-> "none", next |-> "none", outcome |-> Pending,
     fetch |-> NewFetch("none"), failuresBefore |-> 0, retriesBefore |-> 0,
     cbFailuresBefore |-> 0, successesBefore |-> 0, lrtBefore |-> 0,
     cbStateBefore |-> "none", totalRequestsBefore |-> 0]

\* constructor
ExecInit ==
    /\ client \in Clients
    /\ stats = [requests |-> 0, successes |-> 0, failures |-> 0, retries |-> 0]
    \* this.lastRequestTime = 0 on the epoch clock: longer ago than any delay
    /\ lastRequestTime = 0 - (requestDelay + jitterMax)
    /\ cookies \in BOOLEAN
    /\ fetches = EmptyBag
    /\ fev = NoFetchEvent

\* An instance nobody calls (the other specification's variables).
ExecIdle ==
    /\ client = "IBI"
    /\ stats = [requests |-> 0, successes |-> 0, failures |-> 0, retries |-> 0]
    /\ lastRequestTime = 0 - (requestDelay + jitterMax)
    /\ cookies = FALSE
    /\ fetches = EmptyBag
    /\ fev = NoFetchEvent

\* getAllListedSecurities before it is called: its locals page, hasMore and
\* allRecords, where it stands, the pages it has requested and the sizes of
\* the batches it has received, and whether it issued a page request after
\* cancellation was signalled; result is what its caller receives when the
\* call settles: the returned array, or the error the promise rejects with.
NoResult == [kind |-> "none", records |-> <<>>, error |-> "none"]

NoPages ==
    [pc |-> "idle", page |-> 1, hasMore |-> TRUE, allRecords |-> <<>>,
     requested |-> <<>>, batches |-> <<>>, requestedAfterCancel |-> FALSE,
     result |-> NoResult]

\* The n records the upstream returns for page pg.
BatchOf(pg, n) == [i \in 1..n |-> [page |-> pg, index |-> i]]

\* --------------------------------------------- ratingNormalizer.js: strings
\* A JavaScript string is the sequence of its characters; null is JsNull.
JsNull == <<"null">>

LowerCaseLetters == <<"a", "b", "c", "d", "e", "f", "g", "h", "i", "j", "k", "l", "m", "n", "o", "p", "q", "r", "s", "t", "u", "v", "w", "x", "y", "z">>
UpperCaseLetters == <<"A", "B", "C", "D", "E", "F", "G", "H", "I", "J", "K", "L", "M", "N", "O", "P", "Q", "R", "S", "T", "U", "V", "W", "X", "Y", "Z">>

\* one character of String.prototype.toUpperCase
UpperChar(c) ==
    IF \E i \in 1..Len(LowerCaseLetters) : LowerCaseLetters[i] = c
    THEN UpperCaseLetters[CHOOSE i \in 1..Len(LowerCaseLetters) : LowerCaseLetters[i] = c]
    ELSE c

ToUpperCase(str) == [i \in 1..Len(str) |-> UpperChar(str[i])]

\* \s
IsSpace(c) == c = " "

RECURSIVE TrimStart(_)
TrimStart(str) ==
    IF str # <<>> /\ IsSpace(Head(str)) THEN TrimStart(Tail(str)) ELSE str

RECURSIVE TrimEnd(_)
TrimEnd(str) ==
    IF str # <<>> /\ IsSpace(str[Len(str)])
    THEN TrimEnd(SubSeq(str, 1, Len(str) - 1)) ELSE str

\* String.prototype.trim
Trim(str) == TrimEnd(TrimStart(str))

\* String.prototype.indexOf for one character, 1-based; 0 when absent
IndexOf(str, c) ==
    IF \E i \in 1..Len(str) : str[i] = c
    THEN CHOOSE i \in 1..Len(str) : str[i] = c /\ \A k \in 1..(i - 1) : str[k] # c
    ELSE 0

\* str.split(c)[0], str.slice(0, indexOf(c))
Before(str, c) == IF IndexOf(str, c) = 0 THEN str ELSE SubSeq(str, 1, IndexOf(str, c) - 1)

StartsWith(str, pre) == Len(pre) <= Len(str) /\ SubSeq(str, 1, Len(pre)) = pre
EndsWith(str, suf) ==
    Len(suf) <= Len(str) /\ SubSeq(str, Len(str) - Len(suf) + 1, Len(str)) = suf
Includes(str, sub) ==
    \E i \in 1..(Len(str) + 1) :
        i + Len(sub) - 1 <= Len(str) /\ SubSeq(str, i, i + Len(sub) - 1) = sub
Slice(str, n) == SubSeq(str, n + 1, Len(str))

RECURSIVE StripTrailingStars(_)
\* replace(/\*+$/, '')
StripTrailingStars(str) ==
    IF str # <<>> /\ str[Len(str)] = "*"
    THEN StripTrailingStars(SubSeq(str, 1, Len(str) - 1)) ELSE str

\* replace(/\s+/g, '') and replace(/[()]/g, '')
RemoveSpaces(str) == SelectSeq(str, LAMBDA c : ~IsSpace(c))
RemoveParens(str) == SelectSeq(str, LAMBDA c : c \notin {"(", ")"})

\* KNOWN_GRADES, in the order of the array
KNOWN_GRADES ==
    <<<<"A", "A", "A">>,
      <<"A", "A", "+">>,
      <<"A", "A", "-">>,
      <<"A", "A">>,
      <<"A", "+">>,
      <<"A", "-">>,
      <<"A">>,
      <<"B", "B", "B", "+">>,
      <<"B", "B", "B", "-">>,
      <<"B", "B", "B">>,
      <<"B", "B", "+">>,
      <<"B", "B", "-">>,
      <<"B", "B">>,
      <<"B", "+">>,
      <<"B", "-">>,
      <<"B">>,
      <<"C", "+">>,
      <<"C", "-">>,
      <<"C">>,
      <<"D">>>>

NOISE_RESULTS ==
    {<<"W", "I", "T", "H", "D", "R", "A", "W", "N">>,
     <<"I", "S", "S", "U", "E", "R", "N", "O", "T", "C", "O", "O", "P", "E", "R", "A", "T", "I", "N", "G">>,
     <<"C", "I", "S", "S", "U", "E", "R", "N", "O", "T", "C", "O", "O", "P", "E", "R", "A", "T", "I", "N", "G">>,
     <<"P", "R", "O", "V", "I", "S", "I", "O", "N", "A", "L", "C", "A", "R", "E", "W", "I", "T", "H", "D", "R", "A", "W", "N">>,
     <<"I", "N", "D", "W", "I", "T", "H", "D", "R", "A", "W", "N">>}

PROVISIONAL == <<"P", "R", "O", "V", "I", "S", "I", "O", "N", "A", "L">>

AGENCY_PREFIXES_none == <<>>

\* The agency alternatives of AGENCY_PREFIXES_RE in the order the regex tries
\* them (INDIARATINGS? is greedy; INDIA\s+RATINGS cannot match a string
\* without whitespace).
AGENCY_PREFIXES ==
    <<<<"C", "R", "I", "S", "I", "L">>,
      <<"I", "C", "R", "A">>,
      <<"C", "A", "R", "E">>,
      <<"I", "V", "R">>,
      <<"B", "W", "R">>,
      <<"A", "C", "U", "I", "T", "E">>,
      <<"S", "M", "E", "R", "A">>,
      <<"B", "R", "I", "C", "K", "W", "O", "R", "K">>,
      <<"I", "N", "D", "I", "A", "R", "A", "T", "I", "N", "G", "S">>,
      <<"I", "N", "D", "I", "A", "R", "A", "T", "I", "N", "G">>,
      <<"I", "N", "F", "O", "M", "E", "R", "I", "C", "S">>,
      <<"C", "R", "I", "S", "I", "L", "B", "B", "L">>>>

IND_PREFIXES_noIND == << <<"P", "P", "-", "M", "L", "D">> >>
\* IND_PREFIX_RE
IND_PREFIXES ==
    <<<<"I", "N", "D">>,
      <<"P", "P", "-", "M", "L", "D">>>>

\* SUFFIXES_RE
SUFFIXES ==
    <<<<"C", "E">>,
      <<"S", "O">>,
      <<"R", "S", "O">>,
      <<"S", "T", "A", "B", "L", "E">>,
      <<"P", "O", "S", "I", "T", "I", "V", "E">>,
      <<"N", "E", "G", "A", "T", "I", "V", "E">>,
      <<"W", "A", "T", "C", "H">>,
      <<"O", "U", "T", "L", "O", "O", "K">>,
      <<"S", "U", "S", "P", "E", "N", "S", "I", "O", "N">>,
      <<"R", "E", "A", "F", "F", "I", "R", "M", "E", "D">>>>

PP_MLD == <<"P", "P", "-", "M", "L", "D">>

\* GRADE_RANK: lower = better quality
GRADE_RANK ==
    (<<"A", "A", "A">> :> 1)
    @@ (<<"A", "A", "+">> :> 2)
    @@ (<<"A", "A">> :> 3)
    @@ (<<"A", "A", "-">> :> 4)
    @@ (<<"A", "+">> :> 5)
    @@ (<<"A">> :> 6)
    @@ (<<"A", "-">> :> 7)
    @@ (<<"B", "B", "B", "+">> :> 8)
    @@ (<<"B", "B", "B">> :> 9)
    @@ (<<"B", "B", "B", "-">> :> 10)
    @@ (<<"B", "B", "+">> :> 11)
    @@ (<<"B", "B">> :> 12)
    @@ (<<"B", "B", "-">> :> 13)
    @@ (<<"B", "+">> :> 14)
    @@ (<<"B">> :> 15)
    @@ (<<"B", "-">> :> 16)
    @@ (<<"C", "+">> :> 17)
    @@ (<<"C">> :> 18)
    @@ (<<"C", "-">> :> 19)
    @@ (<<"D">> :> 20)
    @@ (<<"P", "P", "-", "M", "L", "D">> :> 80)
    @@ (<<"W", "I", "T", "H", "D", "R", "A", "W", "N">> :> 90)
    @@ (<<"U", "n", "r", "a", "t", "e", "d">> :> 99)

\* the alternatives of alts, in order, that str starts with
MatchingPrefixes(str, alts) == SelectSeq(alts, LAMBDA a : StartsWith(str, a))

\* str.replace(/^(a1|a2|...)/, ''): the first alternative that matches
StripFirstPrefix(str, alts) ==
    IF MatchingPrefixes(str, alts) = <<>> THEN str
    ELSE Slice(str, Len(Head(MatchingPrefixes(str, alts))))

\* s.replace(AGENCY_PREFIXES_RE, ''): (PROVISIONAL)? is tried first, then the
\* agency without it
StripAgency(str) ==
    IF StartsWith(str, PROVISIONAL)
       /\ MatchingPrefixes(Slice(str, Len(PROVISIONAL)), AGENCY_PREFIXES) # <<>>
    THEN StripFirstPrefix(Slice(str, Len(PROVISIONAL)), AGENCY_PREFIXES)
    ELSE StripFirstPrefix(str, AGENCY_PREFIXES)

\* s.replace(SUFFIXES_RE, ''): the leftmost match ending at $, that is the
\* longest alternative str ends with
StripSuffix(str) ==
    LET ends == {i \in 1..Len(SUFFIXES) : EndsWith(str, SUFFIXES[i])} IN
    IF ends = {} THEN str
    ELSE LET i == CHOOSE x \in ends : \A y \in ends : Len(SUFFIXES[y]) <= Len(SUFFIXES[x])
         IN  SubSeq(str, 1, Len(str) - Len(SUFFIXES[i]))

RECURSIVE StripSuffixes(_, _)
\* for (let i = 0; i < 3; i++) { strip; if (s === before) break }
StripSuffixes(str, n) ==
    IF n = 0 THEN str
    ELSE LET t == Trim(StripSuffix(str)) IN
         IF t = str THEN str ELSE StripSuffixes(t, n - 1)

\* the prefix loop returning the last grade of KNOWN_GRADES that matches
MatchGrade_lastMatch(str) ==
    IF \E i \in 1..Len(KNOWN_GRADES) : KNOWN_GRADES[i] = str THEN str
    ELSE IF MatchingPrefixes(str, KNOWN_GRADES) # <<>>
         THEN MatchingPrefixes(str, KNOWN_GRADES)[Len(MatchingPrefixes(str, KNOWN_GRADES))]
         ELSE IF str = <<>> THEN JsNull ELSE str

\* the two loops over KNOWN_GRADES: exact match, then prefix match
MatchGrade(str) ==
    IF \E i \in 1..Len(KNOWN_GRADES) : KNOWN_GRADES[i] = str THEN str
    ELSE IF MatchingPrefixes(str, KNOWN_GRADES) # <<>>
         THEN Head(MatchingPrefixes(str, KNOWN_GRADES))
         ELSE IF str = <<>> THEN JsNull ELSE str

\* the cleaned string of normalizeRating: the first segment before ';' and
\* '/', upper-cased, without trailing stars, whitespace and parentheses
CleanedRating(r) ==
    LET s1 == Before(ToUpperCase(Trim(Before(r, ";"))), "/")
    IN  Trim(RemoveParens(RemoveSpaces(StripTrailingStars(s1))))

\* normalizeRating(raw)
normalizeRating(r) ==
    IF r = JsNull \/ r = <<>> \/ Trim(r) = <<>> THEN JsNull
    ELSE LET s2 == CleanedRating(r)
         IN  IF s2 \in NOISE_RESULTS THEN <<"W", "I", "T", "H", "D", "R", "A", "W", "N">>
             ELSE LET s3 == Trim(StripAgency(s2))
                      s4 == IF StartsWith(s3, PROVISIONAL) THEN Trim(Slice(s3, 11)) ELSE s3
                  IN  IF Includes(s4, PP_MLD) THEN PP_MLD
                      ELSE MatchGrade(StripSuffixes(Trim(StripFirstPrefix(s4, IND_PREFIXES)), 3))

\* ------------------------------------------------ transformers (part_004)
\* JavaScript values: undefined, null, strings (character sequences), numbers
\* (in tenths: 7.5 is 75) and NaN.
Undefined == [t |-> "undefined", s |-> <<>>, n |-> 0]
NullValue == [t |-> "null", s |-> <<>>, n |-> 0]
NaN == [t |-> "nan", s |-> <<>>, n |-> 0]
Str(cs) == [t |-> "string", s |-> cs, n |-> 0]
Num(k) == [t |-> "number", s |-> <<>>, n |-> k]
Bool(b) == [t |-> "boolean", s |-> <<>>, n |-> IF b THEN 1 ELSE 0]

\* raw[key]
Get(rec, key) == IF key \in DOMAIN rec THEN rec[key] ELSE Undefined

\* val !== undefined && val !== null && val !== ''
IsPresent(val) == val.t \notin {"undefined", "null"} /\ val # Str(<<>>)

RECURSIVE pick(_, _)
\* pick(raw, ...keys)
pick(rec, keys) ==
    IF keys = <<>> THEN NullValue
    ELSE IF IsPresent(Get(rec, Head(keys))) THEN Get(rec, Head(keys))
         ELSE pick(rec, Tail(keys))

\* JavaScript truthiness, and a || b
Truthy(v) ==
    \/ (v.t = "string" /\ v.s # <<>>)
    \/ (v.t \in {"number", "boolean"} /\ v.n # 0)
Or(v, w) == IF Truthy(v) THEN v ELSE w

Digits == <<"0", "1", "2", "3", "4", "5", "6", "7", "8", "9">>
IsDigit(c) == \E i \in 1..Len(Digits) : Digits[i] = c
DigitVal(c) == (CHOOSE i \in 1..Len(Digits) : Digits[i] = c) - 1

RECURSIVE LeadingDigits(_)
LeadingDigits(str) ==
    IF str # <<>> /\ IsDigit(Head(str)) THEN <<Head(str)>> \o LeadingDigits(Tail(str))
    ELSE <<>>

RECURSIVE IntVal(_)
IntVal(ds) == IF ds = <<>> THEN 0 ELSE 10 * IntVal(SubSeq(ds, 1, Len(ds) - 1)) + DigitVal(ds[Len(ds)])

\* parseFloat(v) for unsigned decimals, in tenths (digits after the first
\* decimal are dropped by the scale)
parseFloat(v) ==
    IF v.t = "number" THEN v
    ELSE IF v.t # "string" THEN NaN
    ELSE LET str == TrimStart(v.s)
             int == LeadingDigits(str)
             rest == Slice(str, Len(int))
             frac == IF rest # <<>> /\ Head(rest) = "." THEN LeadingDigits(Tail(rest))
                     ELSE <<>>
         IN  IF int = <<>> /\ frac = <<>> THEN NaN
             ELSE Num(10 * IntVal(int) + (IF frac = <<>> THEN 0 ELSE DigitVal(frac[1])))

LowerChar(c) ==
    IF \E i \in 1..Len(UpperCaseLetters) : UpperCaseLetters[i] = c
    THEN LowerCaseLetters[CHOOSE i \in 1..Len(UpperCaseLetters) : UpperCaseLetters[i] = c]
    ELSE c

ToLowerCase(str) == [i \in 1..Len(str) |-> LowerChar(str[i])]

\* \w of a regular expression, and [a-z0-9]
IsWordChar(c) ==
    \/ IsDigit(c) \/ c = "_"
    \/ \E i \in 1..Len(LowerCaseLetters) : LowerCaseLetters[i] = c \/ UpperCaseLetters[i] = c
IsSlugChar(c) == IsDigit(c) \/ \E i \in 1..Len(LowerCaseLetters) : LowerCaseLetters[i] = c

\* str.replace(/\bword\b/gi, repl) on a lower-case str, for a word that
\* cannot overlap itself and is not shorter than repl: the characters of a
\* match become those of repl, and the rest of the match is dropped
ReplaceWord(str, word, repl) ==
    LET n == Len(word)
        matches == {i \in 1..(Len(str) - n + 1) :
                       /\ SubSeq(str, i, i + n - 1) = word
                       /\ (i = 1 \/ ~IsWordChar(str[i - 1]))
                       /\ (i + n > Len(str) \/ ~IsWordChar(str[i + n]))}
        start(i) == {m \in matches : m <= i /\ i < m + n}
        offset(i) == i - (CHOOSE m \in start(i) : TRUE)
        kept == SelectSeq([i \in 1..Len(str) |-> i],
                          LAMBDA i : start(i) = {} \/ offset(i) < Len(repl))
    IN  [k \in 1..Len(kept) |->
            IF start(kept[k]) = {} THEN str[kept[k]] ELSE repl[offset(kept[k]) + 1]]

\* str.replace(/[^a-z0-9]+/g, '-'): the first character of each run becomes a
\* dash and the rest of the run is dropped
Dashes(str) ==
    LET kept == SelectSeq([i \in 1..Len(str) |-> i],
                          LAMBDA i : IsSlugChar(str[i]) \/ i = 1 \/ IsSlugChar(str[i - 1]))
    IN  [k \in 1..Len(kept) |-> IF IsSlugChar(str[kept[k]]) THEN str[kept[k]] ELSE "-"]

\* str.replace(/^-+|-+$/g, '') after Dashes, which leaves single dashes
TrimDashes(str) ==
    LET a == IF str # <<>> /\ Head(str) = "-" THEN Tail(str) ELSE str
    IN  IF a # <<>> /\ a[Len(a)] = "-" THEN SubSeq(a, 1, Len(a) - 1) ELSE a

\* generateSlug without its two replacements of corporate suffixes
generateSlug_noSuffixes(name) ==
    IF ~Truthy(name) THEN <<"u", "n", "k", "n", "o", "w", "n">>
    ELSE LET c == TrimDashes(Dashes(ToLowerCase(name.s)))
         IN  SubSeq(c, 1, IF Len(c) < 80 THEN Len(c) ELSE 80)

\* generateSlug(name)
generateSlug(name) ==
    IF ~Truthy(name) THEN <<"u", "n", "k", "n", "o", "w", "n">>
    ELSE LET l == ToLowerCase(name.s)
             a == ReplaceWord(l, <<"l", "i", "m", "i", "t", "e", "d">>, <<"l", "t", "d">>)
             b == ReplaceWord(a, <<"p", "r", "i", "v", "a", "t", "e">>, <<"p", "v", "t">>)
             c == TrimDashes(Dashes(b))
         IN  SubSeq(c, 1, IF Len(c) < 80 THEN Len(c) ELSE 80)

\* Values parseDate returns: a Date at midnight UTC of a calendar day, an
\* Invalid Date (its time is NaN), or null.
DateOf(y, m, d) == [kind |-> "date", y |-> y, m |-> m, d |-> d]
InvalidDate == [kind |-> "invalid", y |-> 0, m |-> 0, d |-> 0]
NullDate == [kind |-> "null", y |-> 0, m |-> 0, d |-> 0]

IsLeapYear(y) == (y % 4 = 0 /\ y % 100 # 0) \/ y % 400 = 0
DaysInMonth(y, m) ==
    IF m = 2 THEN (IF IsLeapYear(y) THEN 29 ELSE 28)
    ELSE IF m \in {4, 6, 9, 11} THEN 30 ELSE 31

\* new Date('YYYY-MM-DDT00:00:00.000Z') and new Date('YYYY-MM-DD'): the values
\* an engine can give. A day up to 31 that the month does not have is an
\* Invalid Date in one engine and rolls over into the next month in another.
NewDate(y, m, d) ==
    IF m \notin 1..12 \/ d \notin 1..31 THEN {InvalidDate}
    ELSE IF d <= DaysInMonth(y, m) THEN {DateOf(y, m, d)}
    ELSE {InvalidDate, DateOf(y, m + 1, d - DaysInMonth(y, m))}

\* The digits str starts with, and what follows them.
AfterDigits(str) == Slice(str, Len(LeadingDigits(str)))

\* str.match(/^(\d{1,2})[-/](\d{1,2})[-/](\d{4})$/): <<d, m, y>>, or <<>>
DmyMatch(str) ==
    LET d == LeadingDigits(str)
        r1 == AfterDigits(str)
        m == LeadingDigits(IF r1 = <<>> THEN <<>> ELSE Tail(r1))
        r2 == AfterDigits(IF r1 = <<>> THEN <<>> ELSE Tail(r1))
        y == IF r2 = <<>> THEN <<>> ELSE Tail(r2)
    IN  IF /\ Len(d) \in 1..2 /\ r1 # <<>> /\ Head(r1) \in {"-", "/"}
           /\ Len(m) \in 1..2 /\ r2 # <<>> /\ Head(r2) \in {"-", "/"}
           /\ Len(y) = 4 /\ LeadingDigits(y) = y
        THEN <<IntVal(d), IntVal(m), IntVal(y)>>
        ELSE <<>>

\* The date-only form new Date(str) reads as ISO: YYYY-MM-DD, as <<y, m, d>>,
\* or <<>>
IsoMatch(str) ==
    IF /\ Len(str) = 10 /\ str[5] = "-" /\ str[8] = "-"
       /\ \A i \in {1, 2, 3, 4, 6, 7, 9, 10} : IsDigit(str[i])
    THEN <<IntVal(SubSeq(str, 1, 4)), IntVal(SubSeq(str, 6, 7)), IntVal(SubSeq(str, 9, 10))>>
    ELSE <<>>

\* parseDate(dateString) for a string without letters or digits other than
\* those of a date: the set of values it can return
parseDate(str) ==
    IF Trim(str) = <<>> THEN {NullDate}
    ELSE IF DmyMatch(Trim(str)) # <<>>
         THEN NewDate(DmyMatch(Trim(str))[3], DmyMatch(Trim(str))[2], DmyMatch(Trim(str))[1])
         ELSE IF IsoMatch(Trim(str)) = <<>> THEN {NullDate}
              ELSE {IF iso = InvalidDate THEN NullDate ELSE iso :
                        iso \in NewDate(IsoMatch(Trim(str))[1], IsoMatch(Trim(str))[2],
                                        IsoMatch(Trim(str))[3])}

\* parseDate has not returned yet
NotParsed == [kind |-> "pending", y |-> 0, m |-> 0, d |-> 0]

\* detectOwnershipType and detectBondType: the keywords each test looks for
\* in the lower-cased issuer name
GovernmentKeywords ==
    {<<"g", "o", "v", "e", "r", "n", "m", "e", "n", "t">>,
     <<"g", "o", "v", "t">>,
     <<" ", "g", "o", "i">>,
     <<"i", "n", "d", "i", "a", " ", "b", "o", "n", "d", "s">>}
PsuKeywords ==
    {<<" ", "p", "s", "u">>,
     <<"p", "u", "b", "l", "i", "c", " ", "s", "e", "c", "t", "o", "r">>,
     <<"b", "h", "e", "l">>,
     <<"o", "n", "g", "c">>,
     <<"n", "t", "p", "c">>,
     <<"g", "a", "i", "l">>,
     <<"i", "o", "c", "l">>,
     <<"h", "p", "c", "l">>,
     <<"b", "p", "c", "l">>}
GsecKeywords ==
    {<<"g", "o", "v", "e", "r", "n", "m", "e", "n", "t">>,
     <<"g", "s", "e", "c">>,
     <<"g", "-", "s", "e", "c">>}
SdlKeywords ==
    {<<"s", "d", "l">>,
     <<"s", "t", "a", "t", "e", " ", "d", "e", "v", "e", "l", "o", "p", "m", "e", "n", "t", " ", "l", "o", "a", "n">>}

IncludesAny(n, keywords) == \E k \in keywords : Includes(n, k)

\* A parameter with the default '' : the default applies to undefined only
WithDefault(v) == IF v = Undefined THEN Str(<<>>) ELSE v

\* detectOwnershipType(issuerName = '')
detectOwnershipType(issuerName) ==
    LET v == WithDefault(issuerName)
    IN  IF v.t # "string" THEN Thrown("TypeError")
        ELSE LET n == ToLowerCase(v.s)
             IN  IF IncludesAny(n, GovernmentKeywords) THEN Returned("government")
                 ELSE IF IncludesAny(n, PsuKeywords) THEN Returned("psu")
                 ELSE Returned("private")

\* detectBondType(issuerName = '', apiData = {})
detectBondType(issuerName, apiData) ==
    LET v == WithDefault(issuerName)
    IN  IF v.t # "string" THEN Thrown("TypeError")
        ELSE LET n == ToLowerCase(v.s)
             IN  IF apiData.taxFree = Bool(TRUE) \/ apiData.taxFreeStatus = Str(<<"Y", "e", "s">>)
                 THEN Returned("tax-free")
                 ELSE IF IncludesAny(n, GsecKeywords) THEN Returned("gsec")
                 ELSE IF IncludesAny(n, SdlKeywords) THEN Returned("sdl")
                 ELSE IF detectOwnershipType(issuerName) = Returned("psu")
                      THEN Returned("psu")
                 ELSE Returned("corporate")

\* normalizeRating(raw) of the transformers:
\* String(raw || '').replace(/\s+/g, '').replace(/[()]/g, '').toUpperCase().trim() || null
normalizeRating_transformers(v) ==
    LET str == Trim(ToUpperCase(RemoveParens(RemoveSpaces(Or(v, Str(<<>>)).s))))
    IN  IF str = <<>> THEN NullValue ELSE Str(str)

\* (pick(record, 'isin', 'ISIN') || '').toUpperCase()
IsinOf(rec) == ToUpperCase(Or(pick(rec, <<"isin", "ISIN">>), Str(<<>>)).s)

\* new Map(), map.set(key, value), map.has(key)
EmptyMap == <<>>
MapSet(map, key, value) == [k \in DOMAIN map \cup {key} |-> IF k = key THEN value ELSE map[k]]

\* The keys pick tries for each field of an enrichment entry.
CreditRatingKeys == <<"creditRating", "rating", "credit_rating">>
RatingAgencyKeys == <<"ratingAgency", "rating_agency", "agencyName">>
RateRangeKeys == <<"interestRateRange", "rateRange", "bucket", "rate_range", "category">>
RateKeys == <<"interestRate", "couponRate", "rate">>
IssuerTypeKeys == <<"issuerType", "issuer_type", "ownerType", "category">>
IssuerNameKeys == <<"issuerName", "companyName", "name", "issuer_name">>

RECURSIVE extractCreditRatingMap(_, _)
\* extractCreditRatingMap(rawArray), with the map built so far
extractCreditRatingMap(rawArray, map) ==
    IF rawArray = <<>> THEN map
    ELSE LET rec == Head(rawArray)
             rating == normalizeRating_transformers(pick(rec, CreditRatingKeys))
             agency == Or(pick(rec, RatingAgencyKeys), NullValue)
         IN  extractCreditRatingMap(Tail(rawArray),
                 IF IsinOf(rec) # <<>> /\ Truthy(rating)
                 THEN MapSet(map, IsinOf(rec),
                             [creditRating |-> rating, ratingAgency |-> agency])
                 ELSE map)

\* pick(record, 'interestRate', 'couponRate', 'rate') || 0
DefaultRate == Num(0)

RECURSIVE extractInterestRateMap(_, _)
\* extractInterestRateMap(rawArray), with the map built so far
extractInterestRateMap(rawArray, map) ==
    IF rawArray = <<>> THEN map
    ELSE LET rec == Head(rawArray)
             bucket == Or(pick(rec, RateRangeKeys), NullValue)
             rate == parseFloat(Or(pick(rec, RateKeys), DefaultRate))
         IN  extractInterestRateMap(Tail(rawArray),
                 IF IsinOf(rec) # <<>>
                 THEN MapSet(map, IsinOf(rec),
                             [interestRateCategory |-> bucket,
                              couponRate |-> IF rate = NaN THEN Undefined ELSE rate])
                 ELSE map)

RECURSIVE extractIssuerTypeMap(_, _)
\* extractIssuerTypeMap(rawArray), with the map built so far
extractIssuerTypeMap(rawArray, map) ==
    IF rawArray = <<>> THEN map
    ELSE LET rec == Head(rawArray)
             name == Or(pick(rec, IssuerNameKeys), Str(<<>>))
             type == Or(pick(rec, IssuerTypeKeys), NullValue)
             m1 == IF IsinOf(rec) # <<>> /\ Truthy(type)
                   THEN MapSet(map, IsinOf(rec), [issuerType |-> type]) ELSE map
             m2 == IF Truthy(name) /\ Truthy(type)
                   THEN MapSet(m1, generateSlug(name), [issuerType |-> type]) ELSE m1
         IN  extractIssuerTypeMap(Tail(rawArray), m2)

RECURSIVE extractRestructuredSet(_)
\* extractRestructuredSet(rawArray)
extractRestructuredSet(rawArray) ==
    IF rawArray = <<>> THEN {}
    ELSE (IF IsinOf(Head(rawArray)) # <<>> THEN {IsinOf(Head(rawArray))} ELSE {})
             \cup extractRestructuredSet(Tail(rawArray))

\* String(v), for the values a property key or a rating can be (numbers
\* below 1, in tenths)
StringOf(v) ==
    CASE v.t = "string" -> v.s
      [] v.t = "number" -> IF v.n = 0 THEN <<"0">> ELSE <<"0", ".", Digits[v.n + 1]>>
      [] v.t = "null" -> <<"n", "u", "l", "l">>
      [] OTHER -> <<"u", "n", "d", "e", "f", "i", "n", "e", "d">>

\* The properties every object literal inherits from Object.prototype.
ObjectPrototypeKeys ==
    {<<"c", "o", "n", "s", "t", "r", "u", "c", "t", "o", "r">>,
     <<"t", "o", "S", "t", "r", "i", "n", "g">>,
     <<"v", "a", "l", "u", "e", "O", "f">>,
     <<"h", "a", "s", "O", "w", "n", "P", "r", "o", "p", "e", "r", "t", "y">>}

\* What an inherited property holds: a function.
InheritedFunction == [t |-> "function", s |-> <<>>, n |-> 0]

getRatingRank_worst(grade) == Num(99)

\* getRatingRank(grade): GRADE_RANK[grade] ?? 99
getRatingRank(grade) ==
    IF StringOf(grade) \in DOMAIN GRADE_RANK THEN Num(GRADE_RANK[StringOf(grade)])
    ELSE IF StringOf(grade) \in ObjectPrototypeKeys THEN InheritedFunction
    ELSE Num(99)

\* raw.trim is not a function
TypeError == <<"TypeError">>

\* normalizeRating(raw) of ratingNormalizer.js for any value raw: !raw returns
\* null, and raw.trim() throws unless raw is a string
normalizeRatingOf(v) ==
    IF ~Truthy(v) THEN JsNull
    ELSE IF v.t # "string" THEN TypeError
    ELSE normalizeRating(v.s)

\* transformListedSecurity(raw, activeStatus): the fields of the canonical
\* record the enrichment and the rating normalizer work on. The record has no
\* interestRateCategory, and its normalizedRating is set by the merge step.
transformListedSecurity(rec) ==
    LET issuerName == Or(pick(rec, <<"Name of Issuer", "issuerName", "companyName",
                                     "issuer_name", "company_name">>), Str(<<>>))
        couponRate == parseFloat(Or(pick(rec, <<"Coupon Rate (%)", "couponRate",
                                                "interestRate", "coupon_rate",
                                                "interest_rate">>), Num(0)))
        rawRating == pick(rec, <<"Credit Rating", "creditRating", "rating", "credit_rating">>)
        issuerType == Or(pick(rec, <<"Type of Issuer-Ownership", "Type of Issuer-Nature",
                                     "issuerType", "issuer_type", "ownerType">>), NullValue)
    IN  [isin |-> Str(ToUpperCase(Or(pick(rec, <<"ISIN", "isin">>), Str(<<>>)).s)),
         issuerId |-> Str(generateSlug(issuerName)),
         creditRating |-> normalizeRating_transformers(rawRating),
         ratingAgency |-> Or(pick(rec, <<"ratingAgency", "rating_agency",
                                         "ratingAgencyName">>), NullValue),
         couponRate |-> IF couponRate = NaN THEN Num(0) ELSE couponRate,
         interestRateCategory |-> Undefined,
         issuerType |-> issuerType,
         isRestructured |-> Bool(FALSE),
         normalizedRating |-> Undefined]

\* The merge step applies the rating grade normalizer to the record's rating:
\* a canonical grade, or Unrated when there is none.
WithNormalizedRating(b) ==
    [b EXCEPT !.normalizedRating =
        IF normalizeRatingOf(b.creditRating) = JsNull THEN Str(<<"U", "n", "r", "a", "t", "e", "d">>)
        ELSE Str(normalizeRatingOf(b.creditRating))]

\* The enrichment passes in the order they are applied.
Passes == <<"creditRating", "interestRate", "issuerType", "restructured">>

\* No entry of the pass's map is keyed by the bond.
NoEntry == [none |-> Undefined]

\* The entry the map of pass p, built from rawArray, holds for bond b.
EntryFor(p, rawArray, b) ==
    LET map == CASE p = "creditRating" -> extractCreditRatingMap(rawArray, EmptyMap)
                 [] p = "interestRate" -> extractInterestRateMap(rawArray, EmptyMap)
                 [] p = "issuerType" -> extractIssuerTypeMap(rawArray, EmptyMap)
                 [] OTHER -> EmptyMap
    IN  IF b.isin.s \in DOMAIN map THEN map[b.isin.s]
        ELSE IF b.issuerId.s \in DOMAIN map THEN map[b.issuerId.s]
        ELSE NoEntry

\* The merge of one entry into one bond: a field of the entry overwrites the
\* bond's only if it is present (neither undefined, null nor '').
ApplyEntry(b, e) ==
    [f \in DOMAIN b |-> IF f \in DOMAIN e /\ IsPresent(e[f]) THEN e[f] ELSE b[f]]

\* The merge of the restructured set: a bond whose isin is in it is flagged.
ApplyRestructured(b, set) ==
    [b EXCEPT !.isRestructured = IF b.isin.s \in set THEN Bool(TRUE) ELSE @]

\* The parts of the pipeline a specification leaves alone.
PagesIdle ==
    /\ pages = NoPages
    /\ cancelRequested = FALSE

\* What a runSync call hands back: the stats of syncBonds, or null.
SyncStats(st) == [kind |-> "stats", stats |-> st]
SyncNull ==
    [kind |-> "null",
     stats |-> [totalCreated |-> 0, totalUpdated |-> 0, totalSkipped |-> 0]]

NoSyncEvent ==
    [kind |-> "none", type |-> "none", deepSync |-> FALSE, threw |-> FALSE,
     result |-> SyncNull, inFlightBefore |-> 0]

SyncIdle ==
    /\ isRunning = FALSE
    /\ running = <<>>
    /\ sev = NoSyncEvent

\* A bond none of whose fields is set.
NoBond ==
    [isin |-> Undefined, issuerId |-> Undefined, creditRating |-> Undefined,
     ratingAgency |-> Undefined, couponRate |-> Undefined,
     interestRateCategory |-> Undefined, issuerType |-> Undefined,
     isRestructured |-> Undefined]

EnrichIdle ==
    /\ bond = NoBond
    /\ bondBefore = NoBond
    /\ records = <<>>
    /\ entry = NoEntry
    /\ pass = 0

\* normalizeRating has not returned yet
NotNormalized == <<"pending">>

NoParts == [prefix |-> <<>>, sep |-> <<>>, grade |-> <<>>, suffix |-> <<>>, outlook |-> <<>>]

NoApiData == [taxFree |-> Undefined, taxFreeStatus |-> Undefined]
NotDetected == [ownershipType |-> Pending, bondsType |-> Pending]

\* An options object with no property set, and no instance built yet.
ConfigFields ==
    {"requestDelay", "jitterMax", "maxRetries", "baseBackoffMs", "failureThreshold",
     "resetTimeout"}
NoConfig == [f \in ConfigFields |-> Undefined]
NotConstructed == [class |-> "none", fields |-> NoConfig]

ConfigIdle ==
    /\ config = NoConfig
    /\ instance = NotConstructed

InferIdle ==
    /\ detectName = Undefined
    /\ detectData = NoApiData
    /\ detected = NotDetected

TransformIdle ==
    /\ names = <<>>
    /\ slugs = <<>>
    /\ dateString = <<>>
    /\ parsed = NotParsed
    /\ rawSecurity = <<>>
    /\ security = <<>>

\* getRatingRank has not been called
NoRank == [of |-> "none", value |-> Undefined]

RatingIdle ==
    /\ raw = <<>>
    /\ parts = NoParts
    /\ normalized = NotNormalized
    /\ rank = NoRank

\* ------------------------------------------------------- SpecCB: callers
\* A call in flight: whether it has a fallback, the state execute() found on
\* entry, and whether reset() ran while its fn was pending.
Call(fb, st) == [fb |-> fb, enteredIn |-> st, sawReset |-> FALSE]

NoEvent == [type |-> "none", fb |-> FALSE, enteredIn |-> "none", sawReset |-> FALSE,
            before |-> "none", outcome |-> Pending]

Event(type, call, before, outcome) ==
    [type |-> type, fb |-> call.fb, enteredIn |-> call.enteredIn,
     sawReset |-> call.sawReset, before |-> before, outcome |-> outcome]

\* breaker.execute(fn, fallback) up to the await of fn(), or to its rejection
CB_Execute(fb) ==
    /\ totalRequests < MaxRequests
    /\ BagCardinality(calls) < MaxInFlight
    /\ ExecuteEntry
    /\ IF Rejects
       THEN /\ calls' = calls
            /\ ev' = Event("reject", Call(fb, state), state,
                           IF fb THEN Returned("fallback")
                           ELSE Thrown(CircuitBreakerError))
       ELSE /\ calls' = calls (+) SetToBag({Call(fb, state)})
            /\ ev' = Event("invoke", Call(fb, state), state, Pending)
    /\ UNCHANGED <<now, execVars, pageVars, jobVars>>

\* fn() resolves: this._onSuccess(); return result
CB_OpSucceeds(c) ==
    /\ BagIn(c, calls)
    /\ OnSuccess
    /\ calls' = calls (-) SetToBag({c})
    /\ ev' = Event("success", c, state, Returned("result"))
    /\ UNCHANGED <<now, execVars, pageVars, jobVars>>

\* fn() rejects with error e: this._onFailure(error); fallback or rethrow
CB_OpFails(c, e) ==
    /\ BagIn(c, calls)
    /\ OnFailure
    /\ calls' = calls (-) SetToBag({c})
    /\ ev' = Event("failure", c, state,
                   IF c.fb /\ state' = "OPEN" THEN Returned("fallback") ELSE Thrown(e))
    /\ UNCHANGED <<now, execVars, pageVars, jobVars>>

RECURSIVE MarkReset(_)
\* the calls in flight, each marked as having seen a reset()
MarkReset(b) ==
    IF BagToSet(b) = {} THEN EmptyBag
    ELSE LET c == CHOOSE x \in BagToSet(b) : TRUE
             n == CopiesIn(c, b)
             rest == [x \in BagToSet(b) \ {c} |-> b[x]]
             m == [c EXCEPT !.sawReset = TRUE]
             r == MarkReset(rest)
         IN  [x \in BagToSet(r) \cup {m} |->
                 (IF x = m THEN n ELSE 0) + CopiesIn(x, r)]

\* breaker.reset() by an operator, at any moment
CB_Reset ==
    /\ ResetBreaker
    /\ calls' = MarkReset(calls)
    /\ ev' = [NoEvent EXCEPT !.type = "reset", !.before = state]
    /\ UNCHANGED <<now, execVars, pageVars, jobVars>>

\* the clock advances
Tick ==
    /\ now < MaxTime
    /\ now' = now + 1
    /\ emitted' = <<>>
    /\ ev' = NoEvent
    /\ fev' = NoFetchEvent
    /\ UNCHANGED <<state, failures, lastFailureTime, nextRetryTime, successCount,
                   totalRequests, streak, calls, client, stats, lastRequestTime,
                   cookies, fetches, pageVars, jobVars>>

InitCB ==
    /\ CBInit
    /\ now = 0
    /\ calls = EmptyBag
    /\ ev = NoEvent
    /\ ExecIdle
    /\ PagesIdle /\ SyncIdle /\ EnrichIdle /\ RatingIdle /\ TransformIdle /\ InferIdle /\ ConfigIdle

NextCB ==
    \/ \E fb \in BOOLEAN : CB_Execute(fb)
    \/ \E c \in BagToSet(calls) : CB_OpSucceeds(c)
    \/ \E c \in BagToSet(calls), e \in UpstreamErrors : CB_OpFails(c, e)
    \/ CB_Reset
    \/ Tick

SpecCB == InitCB /\ [][NextCB]_vars

\* ------------------------------------------------------ SpecExec: fetches
\* The outcome of running a fetch's closure to its next suspension point:
\* the fetch as suspended (fin = "no"), or its result or error, with the new
\* stats and lastRequestTime.
Suspended(f, st, lrt) ==
    [fin |-> "no", fetch |-> f, outcome |-> Pending, stats |-> st, lrt |-> lrt]
Finished(fin, f, out, st, lrt) ==
    [fin |-> fin, fetch |-> [f EXCEPT !.pc = "done"], outcome |-> out, stats |-> st,
     lrt |-> lrt]

\* this.stats.failures++; throw lastError      (after the for loop)
GiveUp(f, st, lrt) ==
    Finished("throw", f, Thrown(f.lastError), [st EXCEPT !.failures = @ + 1], lrt)

\* for (...; attempt <= this.maxRetries; ...)
LoopAdmits_lt(a) == a < maxRetries
LoopAdmits(a) == a <= maxRetries

\* The for loop's test, then _waitForRateLimit() with jitter j up to its
\* setTimeout, or through to client.get() when no wait is needed.
LoopTop(f, j, st, lrt) ==
    IF ~LoopAdmits(f.attempt) THEN GiveUp(f, st, lrt)
    ELSE LET totalDelay == requestDelay + j
             elapsed == now - lrt
         IN  IF elapsed < totalDelay
             THEN Suspended([f EXCEPT !.pc = "rlSleep",
                                      !.wakeAt = now + (totalDelay - elapsed)], st, lrt)
             ELSE Suspended([f EXCEPT !.pc = "http", !.nAttempts = @ + 1], st, now)

\* catch (error): if (attempt < this.maxRetries) { retries++; await backoff }
\* else the loop ends with attempt++.
RetryOrEnd(f, e, bj, j, st, lrt) ==
    LET g == [f EXCEPT !.lastError = e] IN
    IF f.attempt < maxRetries
    THEN Suspended([g EXCEPT !.pc = "backoff",
                             !.wakeAt = now + baseBackoffMs * Pow2(f.attempt) + bj],
                   [st EXCEPT !.retries = @ + 1], lrt)
    ELSE LoopTop([g EXCEPT !.attempt = @ + 1], j, st, lrt)

On404_retry(f, e, bj, j, st, lrt) == RetryOrEnd(f, e, bj, j, st, lrt)
\* if (error.response?.status === 404) return null   /   return []
On404(f, e, bj, j, st, lrt) ==
    Finished("return", [f EXCEPT !.lastError = e], Returned(EmptyResult(f.method)), st, lrt)

\* client.js: if (error.response?.status === 403) { failures++; throw error }
\* nsdlClient.js: 403 or isHtmlSessionError: await this.refreshCookies()
OnSessionError(f, e, st, lrt) ==
    IF f.method = "_requestWithRetry"
    THEN Finished("throw", [f EXCEPT !.lastError = e], Thrown(e),
                  [st EXCEPT !.failures = @ + 1], lrt)
    ELSE Suspended([f EXCEPT !.lastError = e, !.pc = "refresh", !.nRefresh = @ + 1],
                   st, lrt)

\* The body of the try and of the catch for answer r to the attempt in flight.
HandleResponse(f, r, bj, j, st, lrt) ==
    LET e == ErrOf(r, f.nAttempts)
        h == [f EXCEPT !.onlyOther = @ /\ r \in OtherErrors]
    IN  CASE r = "ok" ->
                Finished("return", h, Returned("data"),
                         [st EXCEPT !.successes = @ + 1], lrt)
          [] r = "badxlsx" ->
                \* stats.successes++ precedes xlsx.read(), which throws
                RetryOrEnd(h, e, bj, j, [st EXCEPT !.successes = @ + 1], lrt)
          [] r = "s404" ->
                On404(h, e, bj, j, st, lrt)
          [] r = "s403" -> OnSessionError(h, e, st, lrt)
          [] r = "html" -> OnSessionError(h, e, st, lrt)
          [] OTHER -> RetryOrEnd(h, e, bj, j, st, lrt)

RefreshFailed_retry(f, j, st, lrt) == LoopTop([f EXCEPT !.attempt = @ + 1], j, st, lrt)
\* refreshed is false: this.stats.failures++; throw new Error(NSDL_SESSION_EXPIRED)
RefreshFailed(f, j, st, lrt) ==
    Finished("throw", f, Thrown(SessionExpired(f.nAttempts)),
             [st EXCEPT !.failures = @ + 1], lrt)

\* refreshed is true: continue, which runs the for loop's attempt++
RefreshSucceeded(f, j, st, lrt) == LoopTop([f EXCEPT !.attempt = @ + 1], j, st, lrt)

FetchEvent(type, resp, r) ==
    [type |-> type, resp |-> resp,
     next |-> IF r.fin = "no" THEN r.fetch.pc ELSE "done",
     outcome |-> r.outcome, fetch |-> r.fetch,
     failuresBefore |-> stats.failures, retriesBefore |-> stats.retries,
     cbFailuresBefore |-> failures, successesBefore |-> stats.successes,
     lrtBefore |-> lastRequestTime, cbStateBefore |-> state,
     totalRequestsBefore |-> totalRequests]

\* Apply outcome r of a step of fetch f (f = NewFetch for one just admitted):
\* the closure stays suspended, or it settles and execute() runs _onSuccess
\* or _onFailure.
Settle(f, inFlight, type, resp, r) ==
    /\ stats' = r.stats
    /\ lastRequestTime' = r.lrt
    /\ fev' = FetchEvent(type, resp, r)
    /\ LET rest == IF inFlight THEN fetches (-) SetToBag({f}) ELSE fetches IN
       CASE r.fin = "no" ->
               /\ fetches' = rest (+) SetToBag({r.fetch})
               /\ IF type = "request" THEN TRUE
                  ELSE /\ NoTransition
                       /\ UNCHANGED <<failures, lastFailureTime, nextRetryTime,
                                      successCount, totalRequests, streak>>
         [] r.fin = "return" -> fetches' = rest /\ OnSuccess
         [] r.fin = "throw" -> fetches' = rest /\ OnFailure
    /\ UNCHANGED <<now, client, cbCallVars, jobVars>>

\* _requestWithRetry / _request / _requestExcel: stats.requests++ and
\* circuitBreaker.execute(execute) up to the closure's first suspension
Request(m, j) ==
    /\ m \in Methods(client)
    /\ ExecuteEntry
    /\ LET st == [stats EXCEPT !.requests = @ + 1]
           f == NewFetch(m)
       IN  IF Rejects
           THEN /\ stats' = st
                /\ fev' = FetchEvent("rejected", "none",
                              Finished("throw", f, Thrown(CircuitBreakerError), st,
                                       lastRequestTime))
                /\ UNCHANGED <<lastRequestTime, fetches, now, client, cbCallVars,
                               jobVars>>
           ELSE IF m # "_requestWithRetry" /\ ~cookies
                THEN \* no cookies in env: await this.refreshCookies()
                     Settle(f, FALSE, "request", "none",
                            Suspended([f EXCEPT !.pc = "preRefresh"], st,
                                      lastRequestTime))
                ELSE Settle(f, FALSE, "request", "none",
                            LoopTop(f, j, st, lastRequestTime))
    /\ cookies' = cookies

\* a logical fetch invoked by a caller that awaits each fetch before it
\* issues the next
Exec_Request(m, j) ==
    /\ totalRequests < MaxRequests
    /\ fetches = EmptyBag
    /\ Request(m, j)
    /\ UNCHANGED pageVars

\* refreshCookies() before the loop settles; its result is not looked at
Exec_PreRefreshDone(f, ok, j) ==
    /\ BagIn(f, fetches) /\ f.pc = "preRefresh"
    /\ cookies' = (cookies \/ ok)
    /\ Settle(f, TRUE, "preRefresh", "none", LoopTop(f, j, stats, lastRequestTime))
    /\ UNCHANGED pageVars

\* the setTimeout of _waitForRateLimit fires: lastRequestTime = Date.now(),
\* then client.get()
Exec_RateLimitWake(f) ==
    /\ BagIn(f, fetches) /\ f.pc = "rlSleep"
    /\ now >= f.wakeAt
    /\ cookies' = cookies
    /\ Settle(f, TRUE, "wake", "none",
              Suspended([f EXCEPT !.pc = "http", !.nAttempts = @ + 1], stats, now))
    /\ UNCHANGED pageVars

\* the upstream answers the attempt in flight with r
Exec_Response(f, r, bj, j) ==
    /\ BagIn(f, fetches) /\ f.pc = "http"
    /\ r \in Responses(f.method)
    /\ cookies' = cookies
    /\ Settle(f, TRUE, "response", r,
              HandleResponse(f, r, bj, j, stats, lastRequestTime))
    /\ UNCHANGED pageVars

\* the backoff setTimeout fires: attempt++ and the next pass of the loop
Exec_BackoffWake(f, j) ==
    /\ BagIn(f, fetches) /\ f.pc = "backoff"
    /\ now >= f.wakeAt
    /\ cookies' = cookies
    /\ Settle(f, TRUE, "backoffWake", "none",
              LoopTop([f EXCEPT !.attempt = @ + 1], j, stats, lastRequestTime))
    /\ UNCHANGED pageVars

\* refreshCookies() called for a 403 or an error page settles
Exec_RefreshDone(f, ok, j) ==
    /\ BagIn(f, fetches) /\ f.pc = "refresh"
    /\ cookies' = (cookies \/ ok)
    /\ Settle(f, TRUE, IF ok THEN "refreshed" ELSE "refreshFailed", "none",
              IF ok THEN RefreshSucceeded(f, j, stats, lastRequestTime)
              ELSE RefreshFailed(f, j, stats, lastRequestTime))
    /\ UNCHANGED pageVars

\* resetStats()
Exec_ResetStats ==
    /\ stats' = [requests |-> 0, successes |-> 0, failures |-> 0, retries |-> 0]
    /\ ResetBreaker
    /\ fev' = [NoFetchEvent EXCEPT !.type = "resetStats"]
    /\ UNCHANGED <<now, client, lastRequestTime, cookies, fetches, cbCallVars,
                   pageVars, jobVars>>

InitExec ==
    /\ CBInit
    /\ now = 0
    /\ calls = EmptyBag
    /\ ev = NoEvent
    /\ ExecInit
    /\ PagesIdle /\ SyncIdle /\ EnrichIdle /\ RatingIdle /\ TransformIdle /\ InferIdle /\ ConfigIdle

NextExec ==
    \/ \E m \in {"_requestWithRetry", "_request", "_requestExcel"}, j \in Jitters :
          Exec_Request(m, j)
    \/ \E f \in BagToSet(fetches), ok \in BOOLEAN, j \in Jitters :
          Exec_PreRefreshDone(f, ok, j)
    \/ \E f \in BagToSet(fetches) : Exec_RateLimitWake(f)
    \/ \E f \in BagToSet(fetches), bj \in BackoffJitters, j \in Jitters :
          \E r \in Responses(f.method) : Exec_Response(f, r, bj, j)
    \/ \E f \in BagToSet(fetches), j \in Jitters : Exec_BackoffWake(f, j)
    \/ \E f \in BagToSet(fetches), ok \in BOOLEAN, j \in Jitters :
          Exec_RefreshDone(f, ok, j)
    \/ Exec_ResetStats
    \/ Tick

SpecExec == InitExec /\ [][NextExec]_vars

\* ------------------------------------- SpecConc: fetches invoked concurrently
\* a logical fetch invoked while other fetches of the instance are in flight
\* (the exported singleton's methods called without awaiting one another)
Conc_Request(m, j) ==
    /\ totalRequests < MaxConcRequests
    /\ BagCardinality(fetches) < MaxInFlight
    /\ Request(m, j)
    /\ UNCHANGED pageVars

NextConc ==
    \/ \E m \in {"_requestWithRetry", "_request", "_requestExcel"}, j \in Jitters :
          Conc_Request(m, j)
    \/ \E f \in BagToSet(fetches), ok \in BOOLEAN, j \in Jitters :
          Exec_PreRefreshDone(f, ok, j)
    \/ \E f \in BagToSet(fetches) : Exec_RateLimitWake(f)
    \/ \E f \in BagToSet(fetches), bj \in BackoffJitters, j \in Jitters :
          \E r \in Responses(f.method) : Exec_Response(f, r, bj, j)
    \/ \E f \in BagToSet(fetches), j \in Jitters : Exec_BackoffWake(f, j)
    \/ \E f \in BagToSet(fetches), ok \in BOOLEAN, j \in Jitters :
          Exec_RefreshDone(f, ok, j)
    \/ Tick

SpecConc == InitExec /\ [][NextConc]_vars

\* ------------------------------------- SpecPages: getAllListedSecurities
\* getListedSecurities(page, pageSize, status) has settled and the loop that
\* awaits it has not resumed yet
ResumePending == pages.pc = "await" /\ fetches = EmptyBag /\ fev.next = "done"

\* while (hasMore) { batch = await this.getListedSecurities(page, ...) }: the
\* call of _requestWithRetry for the page, up to its first suspension
IssuePage(pg, j, cancelled) ==
    /\ totalRequests < MaxRequests
    /\ Request("_requestWithRetry", j)
    /\ pages' = [pg EXCEPT !.pc = "await",
                           !.requested = Append(@, pg.page),
                           !.requestedAfterCancel = @ \/ cancelled]

\* getAllListedSecurities(status, pageSize) is called
Pages_Start(j) ==
    /\ pages.pc \in {"idle", "returned", "threw"}
    /\ fetches = EmptyBag
    /\ IssuePage(NoPages, j, FALSE)
    /\ cancelRequested' = FALSE

HasMore_unlessEmpty(len) == len # 0

\* hasMore after a batch of len records: false when the batch is empty or
\* shorter than pageSize
HasMore(len) == len # 0 /\ ~(len < PageSize)

\* the awaited page settles: the rest of the loop body for a batch of n
\* records (data || [] in getListedSecurities), then the next pass
Pages_Resume(n, j) ==
    /\ ResumePending
    /\ IF fev.outcome.kind = "throw"
       THEN \* the rejection of the awaited page propagates out of the loop:
            \* the caller receives the error, the local allRecords is dropped
            /\ pages' = [pages EXCEPT !.pc = "threw",
                                      !.result = [kind |-> "throw",
                                                  records |-> <<>>,
                                                  error |-> fev.outcome.val]]
            /\ fev' = NoFetchEvent
            /\ UNCHANGED <<cbVars, now, cbCallVars, client, stats, lastRequestTime,
                           cookies, fetches, jobVars>>
       ELSE LET len == IF fev.outcome.val = "null" THEN 0 ELSE n
                more == HasMore(len)
                pg == [pages EXCEPT !.allRecords = @ \o BatchOf(pages.page, len),
                                    !.batches = Append(@, len),
                                    !.hasMore = more,
                                    !.page = IF more THEN @ + 1 ELSE @]
            IN  IF more
                THEN IssuePage(pg, j, cancelRequested)
                ELSE /\ pages' = [pg EXCEPT !.pc = "returned",
                                          !.result = [kind |-> "return",
                                                      records |-> pg.allRecords,
                                                      error |-> "none"]]
                     /\ fev' = NoFetchEvent
                     /\ UNCHANGED <<cbVars, now, cbCallVars, client, stats,
                                    lastRequestTime, cookies, fetches, jobVars>>
    /\ UNCHANGED cancelRequested

\* the operator or the scheduler signals cancellation of the sync
Pages_Cancel ==
    /\ ~cancelRequested
    /\ pages.pc = "await"
    /\ cancelRequested' = TRUE
    /\ UNCHANGED <<cbVars, now, cbCallVars, execVars, pages, jobVars>>

\* the clock advances; a settled await resumes before any timer does
Pages_Tick == ~ResumePending /\ Tick

InitPages ==
    /\ InitExec
    /\ client = "IBI"

NextPages ==
    \/ \E j \in Jitters : Pages_Start(j)
    \/ \E n \in 0..PageSize, j \in Jitters : Pages_Resume(n, j)
    \/ \E f \in BagToSet(fetches) : Exec_RateLimitWake(f)
    \/ \E f \in BagToSet(fetches), bj \in BackoffJitters, j \in Jitters :
          \E r \in Responses(f.method) : Exec_Response(f, r, bj, j)
    \/ \E f \in BagToSet(fetches), j \in Jitters : Exec_BackoffWake(f, j)
    \/ Pages_Cancel
    \/ Pages_Tick

SpecPages == InitPages /\ [][NextPages]_vars

\* The steps of the fetch in flight and of the clock are taken when they can
\* be, and the upstream eventually answers a page with a short one.
PagesFairness ==
    /\ WF_vars(\E f \in BagToSet(fetches) : Exec_RateLimitWake(f))
    /\ WF_vars(\E f \in BagToSet(fetches), bj \in BackoffJitters, j \in Jitters :
                  \E r \in Responses(f.method) : Exec_Response(f, r, bj, j))
    /\ WF_vars(\E f \in BagToSet(fetches), j \in Jitters : Exec_BackoffWake(f, j))
    /\ WF_vars(Pages_Tick)
    /\ SF_vars(\E n \in 0..(PageSize - 1), j \in Jitters : Pages_Resume(n, j))

SpecPagesLive == SpecPages /\ PagesFairness

\* ------------------------------------------------------ SpecSync: runSync
\* The calls of runSync: the two cron jobs and checkStartupSync.
Triggers ==
    {[type |-> "daily", deepSync |-> FALSE], [type |-> "weekly", deepSync |-> TRUE],
     [type |-> "startup", deepSync |-> TRUE], [type |-> "startup", deepSync |-> FALSE]}

\* What syncBonds({ type, deepSync }) resolves with, and the errors it rejects with.
SyncBondsStats ==
    [totalCreated : 0..MaxSyncCount, totalUpdated : 0..MaxSyncCount,
     totalSkipped : 0..MaxSyncCount]
SyncBondsErrors == {"ETIMEDOUT", "NSDL_SESSION_EXPIRED"}

\* What a step of runSync did: the call it belongs to, what the call returned
\* if it settled, and how many syncBonds calls were in flight before the step.
SyncEvent(kind, t, res) ==
    [kind |-> kind, type |-> t.type, deepSync |-> t.deepSync, threw |-> FALSE,
     result |-> res, inFlightBefore |-> Len(running)]

AlreadyRunning_never == FALSE

\* if (isRunning): the guard against concurrent runs
AlreadyRunning == isRunning

IsRunningAfterRun_kept == isRunning

\* finally { isRunning = false }
IsRunningAfterRun == FALSE

\* runSync(type, deepSync) up to its await of syncBonds, or to its early return
Sync_Run(t) ==
    /\ Len(running) < MaxRuns
    /\ IF AlreadyRunning
       THEN /\ sev' = SyncEvent("skipped", t, SyncNull)
            /\ UNCHANGED <<isRunning, running>>
       ELSE /\ isRunning' = TRUE
            /\ running' = Append(running, t)
            /\ sev' = SyncEvent("started", t, SyncNull)
    /\ UNCHANGED <<cbVars, now, cbCallVars, execVars, pageVars, enrichVars, ratingVars,
                   transformVars, inferVars,
                   configVars>>

\* running without its i-th call
Without(i) == SubSeq(running, 1, i - 1) \o SubSeq(running, i + 1, Len(running))

\* syncBonds of the i-th call resolves with st: return stats; finally
Sync_Resolves(i, st) ==
    /\ isRunning' = IsRunningAfterRun
    /\ running' = Without(i)
    /\ sev' = SyncEvent("completed", running[i], SyncStats(st))
    /\ UNCHANGED <<cbVars, now, cbCallVars, execVars, pageVars, enrichVars, ratingVars,
                   transformVars, inferVars,
                   configVars>>

\* syncBonds of the i-th call rejects with e: catch (error) return null; finally
Sync_Rejects(i, e) ==
    /\ isRunning' = IsRunningAfterRun
    /\ running' = Without(i)
    /\ sev' = SyncEvent("failed", running[i], SyncNull)
    /\ UNCHANGED <<cbVars, now, cbCallVars, execVars, pageVars, enrichVars, ratingVars,
                   transformVars, inferVars,
                   configVars>>

InitSync ==
    /\ CBInit
    /\ now = 0
    /\ calls = EmptyBag
    /\ ev = NoEvent
    /\ ExecIdle
    /\ PagesIdle /\ SyncIdle /\ EnrichIdle /\ RatingIdle /\ TransformIdle /\ InferIdle /\ ConfigIdle

NextSync ==
    \/ \E t \in Triggers : Sync_Run(t)
    \/ \E i \in 1..Len(running), st \in SyncBondsStats : Sync_Resolves(i, st)
    \/ \E i \in 1..Len(running), e \in SyncBondsErrors : Sync_Rejects(i, e)

SpecSync == InitSync /\ [][NextSync]_vars

\* ------------------------------------------------------------ SpecEnrich
\* One bond of the primary record set, and the four enrichment passes applied
\* to it in order, each with the records its secondary endpoint returned.
Isin1 == <<"I", "N", "E", "1">>
IsinValues == {Undefined, Str(<<"i", "n", "e", "1">>), Str(<<"I", "N", "E", "2">>)}

\* The bonds transformListedSecurity hands to the merge.
Bonds ==
    [isin : {Str(Isin1)},
     issuerId : {Str(generateSlug(Str(<<"A", "c", "m", "e", " ", "L", "i", "m", "i", "t", "e", "d">>)))},
     creditRating : {NullValue, Str(<<"A", "A">>)},
     ratingAgency : {NullValue, Str(<<"I", "C", "R", "A">>)},
     couponRate : {Num(0), Num(75)},
     interestRateCategory : {Undefined},
     issuerType : {NullValue, Str(<<"P", "r", "i", "v", "a", "t", "e">>)},
     isRestructured : {Bool(FALSE)}]

CreditRatingRecords ==
    [isin : IsinValues,
     rating : {Undefined, Str(<<>>), Str(<<"a", "a", "+">>)},
     ratingAgency : {Undefined, Str(<<"C", "R", "I", "S", "I", "L">>)}]

InterestRateRecords ==
    [ISIN : IsinValues,
     bucket : {Undefined, Str(<<"8", "-", "9", "%">>)},
     interestRate : {Undefined, NullValue, Str(<<"8", ".", "5">>), Str(<<"N", "A">>)},
     rate : {Undefined, Str(<<"0">>)}]

IssuerTypeRecords ==
    [isin : IsinValues,
     issuerName : {Undefined, Str(<<"A", "c", "m", "e", " ", "L", "i", "m", "i", "t", "e", "d">>)},
     category : {Undefined, Str(<<"P", "S", "U">>)}]

RestructuredRecords == [isin : IsinValues]

RecordsOf(p) ==
    CASE p = "creditRating" -> CreditRatingRecords
      [] p = "interestRate" -> InterestRateRecords
      [] p = "issuerType" -> IssuerTypeRecords
      [] OTHER -> RestructuredRecords

RawArrays(p) == UNION {[1..n -> RecordsOf(p)] : n \in 0..MaxEnrichRecords}

\* The pass to apply next.
NextPass == IF pass < Len(Passes) THEN Passes[pass + 1] ELSE "done"

\* Pass p is applied to the bond with the records rawArray of its endpoint.
EnrichPass(p, rawArray) ==
    /\ rawArray \in RawArrays(p)
    /\ pass' = pass + 1
    /\ records' = rawArray
    /\ bondBefore' = bond
    /\ entry' = EntryFor(p, rawArray, bond)
    /\ bond' = IF p = "restructured"
               THEN ApplyRestructured(bond, extractRestructuredSet(rawArray))
               ELSE IF entry' = NoEntry THEN bond ELSE ApplyEntry(bond, entry')
    /\ UNCHANGED <<cbVars, now, cbCallVars, execVars, pageVars, syncVars, ratingVars,
                   transformVars,
                   inferVars,
                   configVars>>

Enrich_CreditRating(rawArray) ==
    /\ NextPass = "creditRating"
    /\ EnrichPass("creditRating", rawArray)

Enrich_InterestRate(rawArray) ==
    /\ NextPass = "interestRate"
    /\ EnrichPass("interestRate", rawArray)

Enrich_IssuerType(rawArray) ==
    /\ NextPass = "issuerType"
    /\ EnrichPass("issuerType", rawArray)

Enrich_Restructured(rawArray) ==
    /\ NextPass = "restructured"
    /\ EnrichPass("restructured", rawArray)


InitEnrich ==
    /\ CBInit
    /\ now = 0
    /\ calls = EmptyBag
    /\ ev = NoEvent
    /\ ExecIdle
    /\ PagesIdle /\ SyncIdle /\ RatingIdle /\ TransformIdle /\ InferIdle /\ ConfigIdle
    /\ bond \in Bonds
    /\ bondBefore = bond
    /\ records = <<>>
    /\ entry = NoEntry
    /\ pass = 0

NextEnrich ==
    \/ \E rawArray \in RawArrays("creditRating") : Enrich_CreditRating(rawArray)
    \/ \E rawArray \in RawArrays("interestRate") : Enrich_InterestRate(rawArray)
    \/ \E rawArray \in RawArrays("issuerType") : Enrich_IssuerType(rawArray)
    \/ \E rawArray \in RawArrays("restructured") : Enrich_Restructured(rawArray)

SpecEnrich == InitEnrich /\ [][NextEnrich]_vars

\* --------------------------------------------- SpecRating: normalizeRating
LadderGrades == {KNOWN_GRADES[i] : i \in 1..Len(KNOWN_GRADES)}
CanonicalGrades == DOMAIN GRADE_RANK

\* The agency prefixes raw ratings carry, and the country prefix IND.
KnownPrefixes ==
    {<<"C", "R", "I", "S", "I", "L">>,
     <<"I", "C", "R", "A">>,
     <<"C", "A", "R", "E">>,
     <<"I", "V", "R">>,
     <<"B", "W", "R">>,
     <<"A", "C", "U", "I", "T", "E">>,
     <<"S", "M", "E", "R", "A">>,
     <<"B", "R", "I", "C", "K", "W", "O", "R", "K">>,
     <<"I", "N", "F", "O", "M", "E", "R", "I", "C", "S">>,
     <<"I", "N", "D">>}

Spaces(n) == [i \in 1..n |-> " "]

\* Raw rating strings: [prefix][spaces]grade[spaces][suffix][/outlook], any
\* part possibly absent.
RatingInputs ==
    [prefix : KnownPrefixes \cup {<<>>},
     sep : {Spaces(n) : n \in 0..MaxSpaces},
     grade : CanonicalGrades \cup {<<>>},
     suffix : {<<>>, <<"C", "E">>, <<"S", "O">>},
     outlook : {<<>>, <<"/", "S", "T", "A", "B", "L", "E">>, <<"/", "N", "e", "g", "a", "t", "i", "v", "e">>}]

RawOf(p) == p.prefix \o p.sep \o p.grade \o p.sep \o p.suffix \o p.outlook

\* normalizeRating(raw) is called and returns
Rating_Normalize ==
    /\ normalized = NotNormalized
    /\ normalized' = normalizeRating(raw)
    /\ UNCHANGED <<cbVars, now, cbCallVars, execVars, pageVars, syncVars, enrichVars,
                   raw, parts, rank, transformVars,
                   inferVars,
                   configVars>>

InitRating ==
    /\ CBInit
    /\ now = 0
    /\ calls = EmptyBag
    /\ ev = NoEvent
    /\ ExecIdle
    /\ PagesIdle /\ SyncIdle /\ EnrichIdle /\ TransformIdle /\ InferIdle /\ ConfigIdle
    /\ parts \in RatingInputs
    /\ raw = RawOf(parts)
    /\ normalized = NotNormalized
    /\ rank = NoRank

NextRating == Rating_Normalize

SpecRating == InitRating /\ [][NextRating]_vars

\* ------------------------- SpecAgency: normalizeRating on every agency name
\* Raw ratings that start with each agency name of AGENCY_PREFIXES_RE, with
\* or without the provisional qualifier, followed by a grade of the ladder.
AgencyNames == {AGENCY_PREFIXES[i] : i \in 1..Len(AGENCY_PREFIXES)}

AgencyInputs ==
    [prefix : AgencyNames \cup {PROVISIONAL \o a : a \in AgencyNames},
     sep : {Spaces(n) : n \in 0..MaxSpaces},
     grade : LadderGrades,
     suffix : {<<>>, <<"C", "E">>},
     outlook : {<<>>, <<"/", "S", "T", "A", "B", "L", "E">>}]

\* normalizeRating(raw) is called and returns
Agency_Normalize ==
    /\ normalized = NotNormalized
    /\ normalized' = normalizeRating(raw)
    /\ UNCHANGED <<cbVars, now, cbCallVars, execVars, pageVars, syncVars, enrichVars,
                   raw, parts, rank, transformVars, inferVars,
                   configVars>>

InitAgency ==
    /\ CBInit
    /\ now = 0
    /\ calls = EmptyBag
    /\ ev = NoEvent
    /\ ExecIdle
    /\ PagesIdle /\ SyncIdle /\ EnrichIdle /\ TransformIdle /\ InferIdle /\ ConfigIdle
    /\ parts \in AgencyInputs
    /\ raw = RawOf(parts)
    /\ normalized = NotNormalized
    /\ rank = NoRank

NextAgency == Agency_Normalize

SpecAgency == InitAgency /\ [][NextAgency]_vars

\* ---------------------------------- SpecGrade: normalizeRating, getRatingRank
\* Characters left after a grade that the cleaning of normalizeRating keeps.
Junk == {<<>>, <<"C">>, <<"X">>, <<"+">>, <<"+", "X">>, <<"-", "1">>, <<"A">>}

\* Strings that are no rating at all.
OtherStrings == ObjectPrototypeKeys \cup {<<" ">>, <<"N", "R">>}

GradeInputs ==
    [grade : CanonicalGrades \cup {<<>>}, junk : Junk]
        \cup [grade : {<<>>}, junk : OtherStrings]

\* Values of a stored creditRating that are not strings.
NonStrings == {Undefined, NullValue, Num(0), Num(5), Bool(TRUE)}

\* normalizeRating(raw) is called, and returns or throws
Grade_Normalize ==
    /\ normalized = NotNormalized
    /\ normalized' = normalizeRatingOf(raw)
    /\ UNCHANGED <<cbVars, now, cbCallVars, execVars, pageVars, syncVars, enrichVars,
                   raw, parts, rank, transformVars,
                   inferVars,
                   configVars>>

\* getRatingRank(normalizeRating(raw)), as the sort of GET /bonds calls it
Grade_RankNormalized ==
    /\ normalized \notin {NotNormalized, TypeError}
    /\ rank = NoRank
    /\ rank' = [of |-> "normalized",
                value |-> getRatingRank(IF normalized = JsNull THEN NullValue
                                        ELSE Str(normalized))]
    /\ UNCHANGED <<cbVars, now, cbCallVars, execVars, pageVars, syncVars, enrichVars,
                   raw, parts, normalized, transformVars,
                   inferVars,
                   configVars>>

\* getRatingRank(raw), called on a grade that was not normalized
Grade_Rank ==
    /\ normalized = NotNormalized
    /\ rank = NoRank
    /\ rank' = [of |-> "raw", value |-> getRatingRank(raw)]
    /\ UNCHANGED <<cbVars, now, cbCallVars, execVars, pageVars, syncVars, enrichVars,
                   raw, parts, normalized, transformVars,
                   inferVars,
                   configVars>>

InitGrade ==
    /\ CBInit
    /\ now = 0
    /\ calls = EmptyBag
    /\ ev = NoEvent
    /\ ExecIdle
    /\ PagesIdle /\ SyncIdle /\ EnrichIdle /\ TransformIdle /\ InferIdle /\ ConfigIdle
    /\ \/ parts \in GradeInputs /\ raw = Str(parts.grade \o parts.junk)
       \/ parts = [grade |-> <<>>, junk |-> <<>>] /\ raw \in NonStrings
    /\ normalized = NotNormalized
    /\ rank = NoRank

NextGrade == Grade_Normalize \/ Grade_RankNormalized \/ Grade_Rank

SpecGrade == InitGrade /\ [][NextGrade]_vars

\* ------------------------------------------------- SpecSlug: generateSlug
\* Issuer names: a stem, a space and a corporate suffix. The long stems make
\* the slug reach the cap of 80 characters, inside the suffix and just after
\* the separator that precedes it.
Stems ==
    {<<"A", "c", "m", "e">>,
     <<"T", "a", "t", "a", " ", "S", "t", "e", "e", "l", " ", "&", " ", "C", "o", ".">>,
     [i \in 1..77 |-> "x"],
     [i \in 1..79 |-> "x"]}

\* The corporate suffixes, each with the variant class it belongs to.
SuffixClass ==
    (<<"L", "i", "m", "i", "t", "e", "d">> :> "ltd") @@ (<<"L", "t", "d">> :> "ltd") @@ (<<"L", "I", "M", "I", "T", "E", "D">> :> "ltd")
    @@ (<<"l", "T", "d", ".">> :> "ltd")
    @@ (<<"P", "r", "i", "v", "a", "t", "e">> :> "pvt") @@ (<<"P", "v", "t">> :> "pvt") @@ (<<"P", "R", "I", "V", "A", "T", "E">> :> "pvt")
    @@ (<<"C", "o", "r", "p">> :> "corp")

IssuerNames == [stem : Stems, suffix : DOMAIN SuffixClass]

NameOf(p) == p.stem \o <<" ">> \o p.suffix

\* generateSlug(names[i]) is called and returns
Slug_Generate(i) ==
    /\ Len(slugs) < MaxSlugCalls
    /\ slugs' = Append(slugs, [of |-> i, slug |-> generateSlug(Str(NameOf(names[i])))])
    /\ UNCHANGED <<cbVars, now, cbCallVars, execVars, pageVars, syncVars, enrichVars,
                   ratingVars, names, dateString, parsed, rawSecurity, security,
                   inferVars,
                   configVars>>

InitSlug ==
    /\ CBInit
    /\ now = 0
    /\ calls = EmptyBag
    /\ ev = NoEvent
    /\ ExecIdle
    /\ PagesIdle /\ SyncIdle /\ EnrichIdle /\ RatingIdle /\ InferIdle /\ ConfigIdle
    /\ names \in [1..2 -> IssuerNames]
    /\ slugs = <<>>
    /\ dateString = <<>>
    /\ parsed = NotParsed
    /\ rawSecurity = <<>>
    /\ security = <<>>

NextSlug == \E i \in 1..2 : Slug_Generate(i)

SpecSlug == InitSlug /\ [][NextSlug]_vars

\* ----------------------------------------------------- SpecDate: parseDate
\* Date strings: day, month and year as they are written, the separator, and
\* the order (day first or ISO), or a string that is no date.
DateParts ==
    [d : {<<"5">>, <<"0", "5">>, <<"2", "9">>, <<"3", "1">>, <<"4", "5">>},
     m : {<<"2">>, <<"0", "2">>, <<"0", "4">>, <<"1", "2">>, <<"1", "3">>},
     y : {<<"2", "0", "2", "3">>, <<"2", "0", "2", "4">>},
     sep : {"-", "/"},
     order : {"dmy", "iso"},
     other : {<<>>}]

NoDates ==
    [d : {<<>>}, m : {<<>>}, y : {<<>>}, sep : {"-"}, order : {"none"},
     other : {<<>>, <<" ">>, <<"N", "A">>, <<"-", "-">>}]

\* ISO strings are written with '-' and two digits for month and day.
DateInputs ==
    {p \in DateParts : p.order = "iso" => (p.sep = "-" /\ Len(p.d) = 2 /\ Len(p.m) = 2)}
        \cup NoDates

DateStringOf(p) ==
    CASE p.order = "dmy" -> p.d \o <<p.sep>> \o p.m \o <<p.sep>> \o p.y
      [] p.order = "iso" -> p.y \o <<p.sep>> \o p.m \o <<p.sep>> \o p.d
      [] OTHER -> p.other

\* parseDate(dateString) is called and returns
Date_Parse ==
    /\ parsed = NotParsed
    /\ parsed' \in parseDate(DateStringOf(dateString))
    /\ UNCHANGED <<cbVars, now, cbCallVars, execVars, pageVars, syncVars, enrichVars,
                   ratingVars, names, slugs, dateString, rawSecurity, security,
                   inferVars,
                   configVars>>

InitDate ==
    /\ CBInit
    /\ now = 0
    /\ calls = EmptyBag
    /\ ev = NoEvent
    /\ ExecIdle
    /\ PagesIdle /\ SyncIdle /\ EnrichIdle /\ RatingIdle /\ InferIdle /\ ConfigIdle
    /\ names = <<>>
    /\ slugs = <<>>
    /\ dateString \in DateInputs
    /\ parsed = NotParsed
    /\ rawSecurity = <<>>
    /\ security = <<>>

NextDate == Date_Parse

SpecDate == InitDate /\ [][NextDate]_vars

\* ------------------------------------ SpecSecurity: transformListedSecurity
Isin2 == <<"I", "N", "E", "0", "0", "2", "A", "0", "7", "8", "0", "9">>

\* One agency's segment of a 'Credit Rating' string.
Segments ==
    [prefix : KnownPrefixes,
     sep : {<<>>, <<" ">>},
     grade : LadderGrades,
     suffix : {<<>>, <<"(", "C", "E", ")">>, <<"(", "S", "O", ")">>},
     outlook : {<<>>, <<"/", "S", "T", "A", "B", "L", "E">>}]

SegmentOf(p) == p.prefix \o p.sep \o p.grade \o p.suffix \o p.outlook

\* The segments of the agencies after the first.
OtherSegments ==
    {<<";", "C", "R", "I", "S", "I", "L", "A", "A", "A", "/", "S", "T", "A", "B", "L", "E">>,
     <<";", " ", "C", "A", "R", "E", " ", "D">>}

\* Raw records of /listedsecurities with an ISIN under either of its keys and
\* a multi-agency 'Credit Rating'.
SecurityInputs ==
    [first : Segments, rest : OtherSegments, isinKey : {"ISIN", "isin"},
     isin : {Isin2, ToLowerCase(Isin2)}]

RawSecurityOf(p) ==
    [k \in {p.isinKey, "Credit Rating", "Name of Issuer"} |->
        CASE k = p.isinKey -> Str(p.isin)
          [] k = "Credit Rating" -> Str(SegmentOf(p.first) \o p.rest)
          [] OTHER -> Str(<<"A", "c", "m", "e", " ", "L", "i", "m", "i", "t", "e", "d">>)]

\* No canonical record has been built.
NoSecurity == [NoBond EXCEPT !.isin = Undefined] @@ [normalizedRating |-> Undefined]

\* transformListedSecurity(rawSecurity) is called and returns
Security_Transform ==
    /\ security = NoSecurity
    /\ security' = transformListedSecurity(rawSecurity)
    /\ UNCHANGED <<cbVars, now, cbCallVars, execVars, pageVars, syncVars, enrichVars,
                   ratingVars, names, slugs, dateString, parsed, rawSecurity,
                   inferVars,
                   configVars>>

\* the merge step normalizes the rating of the record
Security_Normalize ==
    /\ security # NoSecurity
    /\ security.normalizedRating = Undefined
    /\ security' = WithNormalizedRating(security)
    /\ UNCHANGED <<cbVars, now, cbCallVars, execVars, pageVars, syncVars, enrichVars,
                   ratingVars, names, slugs, dateString, parsed, rawSecurity,
                   inferVars,
                   configVars>>

InitSecurity ==
    /\ CBInit
    /\ now = 0
    /\ calls = EmptyBag
    /\ ev = NoEvent
    /\ ExecIdle
    /\ PagesIdle /\ SyncIdle /\ EnrichIdle /\ InferIdle /\ ConfigIdle
    /\ parts \in SecurityInputs
    /\ raw = <<>>
    /\ normalized = NotNormalized
    /\ rank = NoRank
    /\ names = <<>>
    /\ slugs = <<>>
    /\ dateString = <<>>
    /\ parsed = NotParsed
    /\ rawSecurity = RawSecurityOf(parts)
    /\ security = NoSecurity

NextSecurity == Security_Transform \/ Security_Normalize

SpecSecurity == InitSecurity /\ [][NextSecurity]_vars

\* ---------------------- SpecInfer: detectOwnershipType and detectBondType
\* Issuer names: a stem, then nothing or one classification keyword as the
\* source writes it, in upper case or capitalised differently, then a suffix.
InferStems == {<<>>, <<"A", "c", "m", "e">>, <<"G", "O", "I">>}
InferSuffixes == {<<>>, <<" ", "L", "t", "d">>}
AllKeywords == GovernmentKeywords \cup PsuKeywords \cup GsecKeywords \cup SdlKeywords
ToUpperCaseAll(str) == [i \in 1..Len(str) |-> ToUpperCase(<<str[i]>>)[1]]
KeywordSpellings == {<<>>} \cup AllKeywords \cup {ToUpperCaseAll(k) : k \in AllKeywords}

InferNames ==
    {Str(st \o k \o su) : st \in InferStems, k \in KeywordSpellings, su \in InferSuffixes}
        \cup {Undefined, NullValue}

\* The fields of the raw record that detectBondType reads.
ApiDataInputs ==
    [taxFree : {Undefined, Bool(TRUE), Bool(FALSE), Str(<<"t", "r", "u", "e">>)},
     taxFreeStatus : {Undefined, Str(<<"Y", "e", "s">>), Str(<<"N", "o">>)}]

\* detectOwnershipType(detectName) is called and settles
Infer_Ownership ==
    /\ detected.ownershipType = Pending
    /\ detected' = [detected EXCEPT !.ownershipType = detectOwnershipType(detectName)]
    /\ UNCHANGED <<cbVars, now, cbCallVars, execVars, pageVars, syncVars, enrichVars,
                   ratingVars, transformVars, detectName, detectData,
                   configVars>>

\* detectBondType(detectName, detectData) is called and settles
Infer_BondType ==
    /\ detected.bondsType = Pending
    /\ detected' = [detected EXCEPT !.bondsType = detectBondType(detectName, detectData)]
    /\ UNCHANGED <<cbVars, now, cbCallVars, execVars, pageVars, syncVars, enrichVars,
                   ratingVars, transformVars, detectName, detectData,
                   configVars>>

InitInfer ==
    /\ CBInit
    /\ now = 0
    /\ calls = EmptyBag
    /\ ev = NoEvent
    /\ ExecIdle
    /\ PagesIdle /\ SyncIdle /\ EnrichIdle /\ RatingIdle /\ TransformIdle /\ ConfigIdle
    /\ detectName \in InferNames
    /\ detectData \in ApiDataInputs
    /\ detected = NotDetected

NextInfer == Infer_Ownership \/ Infer_BondType

SpecInfer == InitInfer /\ [][NextInfer]_vars

\* ----------------------------------- SpecConfig: the three constructors
\* The integer k as a JavaScript number.
IntNum(k) == Num(10 * k)

\* The defaults each constructor writes after ||.
Defaults(class) ==
    CASE class = "IBI" ->
           [requestDelay |-> IntNum(1000), jitterMax |-> IntNum(500), maxRetries |-> IntNum(3),
            baseBackoffMs |-> IntNum(2000), failureThreshold |-> IntNum(5),
            resetTimeout |-> IntNum(60000)]
      [] class = "NSDL" ->
           [requestDelay |-> IntNum(1200), jitterMax |-> IntNum(600), maxRetries |-> IntNum(3),
            baseBackoffMs |-> IntNum(2500), failureThreshold |-> IntNum(4),
            resetTimeout |-> IntNum(90000)]
      [] OTHER ->
           [requestDelay |-> Undefined, jitterMax |-> Undefined, maxRetries |-> Undefined,
            baseBackoffMs |-> Undefined, failureThreshold |-> IntNum(5),
            resetTimeout |-> IntNum(60000)]

\* new CircuitBreaker(options): options.failureThreshold || 5 and
\* options.resetTimeout || 60000; the other four fields are not its own
BreakerFields(options) ==
    [f \in ConfigFields |->
        IF f \in {"failureThreshold", "resetTimeout"}
        THEN Or(options[f], Defaults("CircuitBreaker")[f])
        ELSE Undefined]

\* new IndiaBondInfoClient(config) or new NSDLBondClient(config): each field
\* is config.field || default, and the breaker is built from the two values
\* computed the same way
ClientFields(class, cfg) ==
    LET own == [f \in ConfigFields |-> Or(cfg[f], Defaults(class)[f])]
        cb == BreakerFields(own)
    IN  [f \in ConfigFields |->
            IF f \in {"failureThreshold", "resetTimeout"} THEN cb[f] ELSE own[f]]

\* The values an option is given: absent, null, 0, 1 or a larger number.
OptionValues == {Undefined, NullValue, IntNum(0), IntNum(1), IntNum(250)}

\* new IndiaBondInfoClient(config) / new NSDLBondClient(config)
Config_NewClient(class) ==
    /\ instance = NotConstructed
    /\ instance' = [class |-> class, fields |-> ClientFields(class, config)]
    /\ UNCHANGED <<cbVars, now, cbCallVars, execVars, pageVars, syncVars, enrichVars,
                   ratingVars, transformVars, inferVars, config>>

\* new CircuitBreaker(options)
Config_NewBreaker ==
    /\ instance = NotConstructed
    /\ instance' = [class |-> "CircuitBreaker", fields |-> BreakerFields(config)]
    /\ UNCHANGED <<cbVars, now, cbCallVars, execVars, pageVars, syncVars, enrichVars,
                   ratingVars, transformVars, inferVars, config>>

InitConfig ==
    /\ CBInit
    /\ now = 0
    /\ calls = EmptyBag
    /\ ev = NoEvent
    /\ ExecIdle
    /\ PagesIdle /\ SyncIdle /\ EnrichIdle /\ RatingIdle /\ TransformIdle /\ InferIdle
    /\ config \in [ConfigFields -> OptionValues]
    /\ instance = NotConstructed

NextConfig ==
    \/ \E class \in Clients : Config_NewClient(class)
    \/ Config_NewBreaker

SpecConfig == InitConfig /\ [][NextConfig]_vars

\* ------------------------------------------------- claims on the breaker
\* C1: starting from CLOSED with failure count 0, the failureThreshold-th
\* consecutive failed operation leaves the breaker OPEN with
\* nextRetryTime = (time of that failure) + resetTimeout.
C1_TripsAtThreshold ==
    (ev.type = "failure" /\ streak = failureThreshold)
        => (state = "OPEN" /\ nextRetryTime = now + resetTimeout)

C1_Witness ==
    /\ ev.type = "failure"
    /\ streak = failureThreshold
    /\ state = "OPEN"
    /\ ev.before = "CLOSED"

\* C2: an execute() without fallback that finds the breaker OPEN before
\* nextRetryTime throws a CircuitBreakerError, which no upstream error equals
\* or is flagged like, does not invoke its operation and leaves the state OPEN.
C2_RejectedWhileOpen ==
    (/\ ev.type \in {"invoke", "reject"}
     /\ ev.before = "OPEN"
     /\ now < nextRetryTime
     /\ ~ev.fb)
        => /\ ev.type = "reject"
           /\ ev.outcome = Thrown(CircuitBreakerError)
           /\ ev.outcome.val.isCircuitBreakerError
           /\ \A e \in UpstreamErrors :
                 /\ e # ev.outcome.val
                 /\ e.name # ev.outcome.val.name
                 /\ ~e.isCircuitBreakerError
           /\ state = "OPEN"

C2_Witness ==
    /\ ev.type = "reject"
    /\ ~ev.fb
    /\ ev.before = "OPEN"
    /\ now < nextRetryTime

\* C3: a call that finds the breaker OPEN at or after nextRetryTime has the
\* breaker HALF_OPEN when its operation is invoked, and when that operation
\* succeeds (no reset() in between) the breaker is CLOSED with 0 failures.
C3_TrialSuccessCloses ==
    /\ (ev.type = "invoke" /\ ev.enteredIn = "OPEN") => state = "HALF_OPEN"
    /\ (ev.type = "success" /\ ev.enteredIn = "OPEN" /\ ~ev.sawReset)
          => (state = "CLOSED" /\ failures = 0)

\* C4: when the operation of a call admitted for HALF_OPEN fails (no reset()
\* in between), the breaker is OPEN with nextRetryTime = now + resetTimeout.
C4_TrialFailureReopens ==
    (ev.type = "failure" /\ ev.enteredIn \in {"OPEN", "HALF_OPEN"} /\ ~ev.sawReset)
        => (state = "OPEN" /\ nextRetryTime = now + resetTimeout)

\* C5: no operation is invoked for an execute() that arrives while the
\* breaker is HALF_OPEN, that is, while a trial call is unresolved.
C5_OneTrialInHalfOpen ==
    ev.type = "invoke" => ev.enteredIn # "HALF_OPEN"

\* C6: a step that changes the breaker's state emits exactly one
\* notification, from the old state to the new one; a step that leaves the
\* state alone emits none.
C6_EveryChangeNotified ==
    /\ (ev.type # "none" /\ state # ev.before)
          => /\ Len(emitted) = 1
             /\ emitted[1].from = ev.before
             /\ emitted[1].to = state
    /\ (ev.type # "none" /\ state = ev.before) => emitted = <<>>

\* ----------------------------------------------- claims on the executors
\* C7: in both executors the step that receives a 404 ends the logical fetch
\* with an empty result (null or []): the fetch is not suspended for a further
\* attempt or a backoff, and neither the executor nor the breaker counts a
\* failure.
C7_NotFoundIsEmptyResult ==
    (fev.type = "response" /\ fev.resp = "s404")
        => /\ fev.next = "done"
           /\ fev.outcome.kind = "return"
           /\ fev.outcome.val \in {"null", "[]"}
           /\ fetches = EmptyBag
           /\ stats.failures = fev.failuresBefore
           /\ stats.retries = fev.retriesBefore
           /\ failures <= fev.cbFailuresBefore

C7_Witness ==
    /\ fev.type = "response"
    /\ fev.resp = "s404"
    /\ fev.fetch.method = "_request"
    /\ fev.fetch.nAttempts = 2
    /\ fev.outcome = Returned("[]")

\* C8: within one logical fetch of NSDLBondClient, refreshCookies is called
\* at most once for 403 or error-page answers.
C8_AtMostOneRefresh ==
    /\ \A f \in BagToSet(fetches) : f.nRefresh <= 1
    /\ fev.fetch.nRefresh <= 1

\* C9: when the refreshCookies call made for a 403 or an error page fails,
\* the fetch ends in that step with the NSDL_SESSION_EXPIRED error: it is not
\* suspended for a further attempt or a backoff, and stats.failures and the
\* breaker's failure count each grow by exactly 1.
C9_RefreshFailureIsFatal ==
    fev.type = "refreshFailed"
        => /\ fev.next = "done"
           /\ fev.outcome.kind = "throw"
           /\ fev.outcome.val.message = "NSDL_SESSION_EXPIRED"
           /\ fetches = EmptyBag
           /\ stats.failures = fev.failuresBefore + 1
           /\ stats.retries = fev.retriesBefore
           /\ failures = fev.cbFailuresBefore + 1

C9_Witness ==
    /\ fev.type = "refreshFailed"
    /\ fev.next = "done"
    /\ fev.fetch.method = "_requestExcel"
    /\ fev.outcome = Thrown(SessionExpired(fev.fetch.nAttempts))

\* C10: a logical fetch whose physical attempts were all answered with
\* transport or server errors (no 404, 403 or error page) ends only after
\* maxRetries + 1 attempts, in the step that receives the last answer, by
\* throwing that attempt's own error; while it runs it never issues more
\* than maxRetries + 1 attempts.
C10_LastErrorAfterAllAttempts ==
    /\ (fev.next = "done" /\ fev.fetch.onlyOther /\ fev.fetch.nAttempts >= 1)
          => /\ fev.fetch.nAttempts = maxRetries + 1
             /\ fev.type = "response"
             /\ fev.outcome = Thrown(ErrOf(fev.resp, fev.fetch.nAttempts))
    /\ \A f \in BagToSet(fetches) : f.nAttempts <= maxRetries + 1

C10_Witness ==
    /\ fev.next = "done"
    /\ fev.fetch.onlyOther
    /\ fev.fetch.nAttempts = maxRetries + 1
    /\ fev.resp = "ETIMEDOUT"
    /\ fev.fetch.lastError.at = maxRetries + 1
    /\ fev.outcome.kind = "throw"

\* C11: a step that issues a physical attempt does so at least requestDelay
\* after the previous physical attempt of the instance was issued (the value
\* lastRequestTime had before the step), also when fetches are invoked
\* concurrently.
C11_AttemptsSpacedByRequestDelay ==
    fev.next = "http" => now - fev.lrtBefore >= requestDelay

\* C12: at most one physical attempt of the instance is in flight.
C12_OneAttemptInFlight ==
    \A f \in BagToSet(fetches) :
        f.pc = "http" => /\ CopiesIn(f, fetches) = 1
                         /\ \A g \in BagToSet(fetches) : g.pc = "http" => g = f

\* C13: a logical fetch that finds the breaker OPEN before nextRetryTime is
\* rejected in the step that invokes it with the CircuitBreakerError: no fetch
\* is left waiting or in flight, no physical attempt was issued, and
\* lastRequestTime and the successes, failures and retries counters are as
\* they were.
C13_RejectedBeforeRateLimit ==
    (/\ fev.type \in {"request", "rejected"}
     /\ fev.cbStateBefore = "OPEN"
     /\ now < nextRetryTime)
        => /\ fev.type = "rejected"
           /\ fev.outcome = Thrown(CircuitBreakerError)
           /\ fetches = EmptyBag
           /\ fev.fetch.nAttempts = 0
           /\ lastRequestTime = fev.lrtBefore
           /\ stats.successes = fev.successesBefore
           /\ stats.failures = fev.failuresBefore
           /\ stats.retries = fev.retriesBefore

C13_Witness ==
    /\ fev.type = "rejected"
    /\ fev.cbStateBefore = "OPEN"
    /\ now < nextRetryTime
    /\ now - lastRequestTime >= requestDelay + jitterMax
    /\ stats.failures > 0

\* C14: in _requestExcel the step that receives a payload that does not
\* decode ends the fetch by throwing that attempt's decode error: the fetch is
\* not suspended for a backoff or a further attempt.
C14_DecodeFailureIsFatal ==
    (fev.type = "response" /\ fev.resp = "badxlsx")
        => /\ fev.next = "done"
           /\ fev.outcome = Thrown(ErrOf("badxlsx", fev.fetch.nAttempts))

\* C15: in NSDLBondClient a successful cookie refresh consumes no retry
\* budget: the attempt in flight has index (attempts issued - 1 - refreshes
\* made), and a successful refresh is followed by a further attempt.
C15_RefreshKeepsAttemptIndex ==
    /\ \A f \in BagToSet(fetches) :
          f.pc = "http" => f.attempt = f.nAttempts - 1 - f.nRefresh
    /\ fev.type = "refreshed" => fev.next \in {"rlSleep", "http"}

\* C16: getAllListedSecurities issues no page request once cancellation has
\* been signalled.
C16_CancellationStopsPaging == ~pages.requestedAfterCancel

\* C17: a runSync call that started a sync run ends, whether syncBonds
\* succeeded or failed, without throwing and by handing back a summary of the
\* run (not null).
C17_RunAlwaysSummarised ==
    sev.kind \in {"completed", "failed"}
        => /\ ~sev.threw
           /\ sev.result.kind = "stats"

\* C19: normalizeRating of a canonical grade on its own (a ladder grade,
\* PP-MLD, WITHDRAWN or Unrated) is that grade.
C19_CanonicalGradeIsFixed ==
    (/\ normalized # NotNormalized
     /\ parts.grade \in CanonicalGrades
     /\ raw = parts.grade)
        => normalized = parts.grade

\* C20: normalizeRating of a known prefix, a ladder grade, an optional CE or
\* SO suffix and an optional /outlook, with optional spaces between them, is
\* the grade; normalizeRating of an empty or whitespace-only string is null.
C20_PrefixedGradeNormalizes ==
    /\ (/\ normalized # NotNormalized
        /\ parts.prefix \in KnownPrefixes
        /\ parts.grade \in LadderGrades)
          => normalized = parts.grade
    /\ (normalized # NotNormalized /\ \A i \in 1..Len(raw) : IsSpace(raw[i]))
          => normalized = JsNull

C20_Witness ==
    /\ normalized = <<"A", "A", "+">>
    /\ raw = <<"I", "N", "D", " ", "A", "A", "+", " ", "C", "E", "/", "S", "T", "A", "B", "L", "E">>

\* ---------------------------------------------------- claims on enrichment
\* The keys pick tries in a source record for field f of an entry.
KeysOf(f) ==
    CASE f = "creditRating" -> CreditRatingKeys
      [] f = "ratingAgency" -> RatingAgencyKeys
      [] f = "interestRateCategory" -> RateRangeKeys
      [] f = "couponRate" -> RateKeys
      [] OTHER -> IssuerTypeKeys

\* The source records of the last pass that are keyed by bond b.
RecordsFor(b) ==
    {i \in 1..Len(records) :
        \/ IsinOf(records[i]) = b.isin.s
        \/ generateSlug(Or(pick(records[i], IssuerNameKeys), Str(<<>>))) = b.issuerId.s}

\* C18: enrichment is non-destructive in every pass: when the bond had a
\* non-empty value for a field and every source record of the pass keyed by
\* the bond lacks that field, the entry built for the bond carries no value
\* for the field and the bond's value is unchanged.
C18_EnrichmentNonDestructive ==
    \A f \in DOMAIN entry \ {"none"} :
        (/\ pass >= 1
         /\ IsPresent(bondBefore[f])
         /\ \A i \in RecordsFor(bondBefore) : pick(records[i], KeysOf(f)) = NullValue)
        => (~IsPresent(entry[f]) /\ bond[f] = bondBefore[f])

\* ------------------------------------------- claims on the rating grades
\* The string getRatingRank was last called with.
Ranked == IF rank.of = "raw" THEN StringOf(raw) ELSE normalized

\* The ladder from best to worst, as the ranks are meant to order it.
Ladder ==
    <<<<"A", "A", "A">>,
      <<"A", "A", "+">>,
      <<"A", "A">>,
      <<"A", "A", "-">>,
      <<"A", "+">>,
      <<"A">>,
      <<"A", "-">>,
      <<"B", "B", "B", "+">>,
      <<"B", "B", "B">>,
      <<"B", "B", "B", "-">>,
      <<"B", "B", "+">>,
      <<"B", "B">>,
      <<"B", "B", "-">>,
      <<"B", "+">>,
      <<"B">>,
      <<"B", "-">>,
      <<"C", "+">>,
      <<"C">>,
      <<"C", "-">>,
      <<"D">>,
      <<"W", "I", "T", "H", "D", "R", "A", "W", "N">>>>

\* C21: when the cleaned remainder equals no grade exactly and has a ladder
\* grade as prefix, normalizeRating returns the longest ladder grade that is a
\* prefix of the remainder.
C21_LongestPrefixWins ==
    LET rem == parts.grade \o parts.junk
        prefixes == {g \in LadderGrades : StartsWith(rem, g)}
    IN  (/\ normalized # NotNormalized
         /\ raw = Str(rem)
         /\ rem \notin LadderGrades
         /\ prefixes # {})
        => (normalized \in prefixes /\ \A g \in prefixes : Len(g) <= Len(normalized))

C21_Witness ==
    /\ raw = Str(<<"A", "A", "+", "X">>)
    /\ normalized = <<"A", "A", "+">>

\* C22: the rank returned for a ladder grade is below the rank of every grade
\* after it on the ladder, and no other canonical grade has the same rank.
C22_RankStrictlyMonotonic ==
    \A i \in 1..Len(Ladder) :
        (rank.of = "raw" /\ raw = Str(Ladder[i]))
        => /\ rank.value.t = "number"
           /\ \A j \in (i + 1)..Len(Ladder) : rank.value.n < GRADE_RANK[Ladder[j]]
           /\ \A g \in CanonicalGrades \ {Ladder[i]} : rank.value.n # GRADE_RANK[g]

C22_Witness ==
    /\ rank.of = "raw"
    /\ raw = Str(<<"A", "A", "-">>)
    /\ rank.value = Num(4)

\* C23: for every input that is not a canonical grade, getRatingRank returns
\* the worst defined rank, which no canonical grade's rank exceeds.
C23_UnknownGradeRanksWorst ==
    (rank.of # "none" /\ Ranked \notin CanonicalGrades)
    => /\ rank.value = Num(99)
       /\ \A g \in CanonicalGrades : GRADE_RANK[g] <= rank.value.n

\* C24: normalizeRating returns for every input and never throws.
C24_NormalizeRatingIsTotal ==
    normalized # NotNormalized => normalized # TypeError

\* ------------------------------------------------ claims on the transformers
\* C25: generateSlug gives the same slug whenever it is called with the same
\* name, and the same slug for two names that differ only in the variant of
\* their corporate suffix (Limited or Ltd, Private or Pvt, in any letter case).
C25_SlugCollapsesSuffixVariants ==
    \A x \in 1..Len(slugs) : \A y \in 1..Len(slugs) :
        LET a == names[slugs[x].of]
            b == names[slugs[y].of]
        IN  (a.stem = b.stem /\ SuffixClass[a.suffix] = SuffixClass[b.suffix]
             /\ (a.suffix = b.suffix \/ SuffixClass[a.suffix] \in {"ltd", "pvt"}))
            => slugs[x].slug = slugs[y].slug

C25_Witness ==
    /\ Len(slugs) = 2
    /\ NameOf(names[slugs[1].of]) = <<"A", "c", "m", "e", " ", "L", "i", "m", "i", "t", "e", "d">>
    /\ NameOf(names[slugs[2].of]) = <<"A", "c", "m", "e", " ", "l", "T", "d", ".">>
    /\ slugs[1].slug = <<"a", "c", "m", "e", "-", "l", "t", "d">>
    /\ slugs[2].slug = slugs[1].slug

\* C26: parseDate returns the date a day-first or ISO string denotes, and null
\* for every input that denotes no valid calendar date.
C26_ParseDateOrNull ==
    parsed # NotParsed =>
        LET y == IntVal(dateString.y)
            m == IntVal(dateString.m)
            d == IntVal(dateString.d)
        IN  IF dateString.order # "none" /\ m \in 1..12 /\ d \in 1..DaysInMonth(y, m)
            THEN parsed = DateOf(y, m, d)
            ELSE parsed = NullDate

C28_FailuresAreConsecutive ==
    /\ (ev.type = "success" /\ ev.before = "CLOSED") => failures = 0
    /\ (ev.type = "failure" /\ ev.before = "CLOSED" /\ state = "OPEN")
       => streak = failureThreshold

\* C29: the attempt loop of a logical fetch is one breaker operation: the
\* fetch adds 1 to totalRequests when it is made and nothing afterwards, its
\* attempts leave the breaker's failure count alone, and when it ends the
\* count is 1 higher if it throws and no higher if it returns a result.
C29_FetchIsOneBreakerOperation ==
    /\ fev.type \in {"request", "rejected"}
       => totalRequests = fev.totalRequestsBefore + 1
    /\ fev.type \notin {"none", "resetStats", "request", "rejected"}
       => totalRequests = fev.totalRequestsBefore
    /\ (fev.type \notin {"none", "resetStats", "rejected"} /\ fev.next # "done")
       => failures = fev.cbFailuresBefore
    /\ (fev.type \notin {"none", "resetStats", "rejected"} /\ fev.next = "done"
        /\ fev.outcome.kind = "throw")
       => failures = fev.cbFailuresBefore + 1
    /\ (fev.type \notin {"none", "resetStats", "rejected"} /\ fev.next = "done"
        /\ fev.outcome.kind = "return")
       => failures = IF fev.cbStateBefore = "HALF_OPEN" THEN 0 ELSE fev.cbFailuresBefore

\* A fetch that made two attempts has failed and counts as one failure.
C29_Witness ==
    /\ fev.next = "done"
    /\ fev.outcome.kind = "throw"
    /\ fev.fetch.nAttempts = 2
    /\ failures = fev.cbFailuresBefore + 1
    /\ totalRequests = 1

\* C30: getAllListedSecurities requests pages 1, 2, 3, ... one at a time, each
\* after the batch of the page before it has been received; every batch
\* before the last is full; it returns after the first empty or short batch
\* with the records of all batches in page order.
C30_PagesOneAtATime ==
    /\ pages.requested = [i \in 1..Len(pages.requested) |-> i]
    /\ \A i \in 1..(Len(pages.batches) - 1) : pages.batches[i] = PageSize
    /\ pages.pc = "await"
       => /\ Len(pages.requested) = Len(pages.batches) + 1
          /\ BagCardinality(fetches) <= 1
          /\ \A i \in 1..Len(pages.batches) : pages.batches[i] = PageSize
    /\ pages.pc = "returned"
       => /\ Len(pages.requested) = Len(pages.batches)
          /\ pages.batches[Len(pages.batches)] < PageSize
          /\ pages.allRecords =
                 [k \in 1..(PageSize * (Len(pages.batches) - 1)
                            + pages.batches[Len(pages.batches)]) |->
                     [page |-> ((k - 1) \div PageSize) + 1,
                      index |-> ((k - 1) % PageSize) + 1]]

\* Three pages were requested and the records of two full batches and a short
\* one are returned.
C30_Witness ==
    /\ pages.pc = "returned"
    /\ pages.requested = <<1, 2, 3>>
    /\ pages.batches = <<PageSize, PageSize, PageSize - 1>>
    /\ Len(pages.allRecords) = 3 * PageSize - 1

\* The fetch in flight sleeps until a time the clock of the model does not
\* reach.
BeyondMaxTime == now = MaxTime /\ \E f \in BagToSet(fetches) : f.wakeAt > MaxTime

\* C30, termination: when the upstream eventually answers with a short page,
\* a call of getAllListedSecurities returns or throws (unless its fetch sleeps
\* beyond the time the model covers).
C30_PagesTerminate ==
    (pages.pc = "await") ~> (pages.pc \in {"returned", "threw"} \/ BeyondMaxTime)

\* C30: pages are requested one at a time and in order, the call stops after
\* the first empty or short page and returns the records in page order, and
\* it terminates when the upstream eventually answers with a short page.
C30_SequentialPaging == []C30_PagesOneAtATime /\ C30_PagesTerminate

\* C31: when the request for a page k > 1 finally fails, the caller of
\* getAllListedSecurities receives, with the failure, the records of the
\* pages 1..k-1 fetched before it.
C31_PartialPagesDelivered ==
    (pages.pc = "threw" /\ Len(pages.batches) >= 1)
        => /\ pages.result.kind = "throw"
           /\ pages.result.records = pages.allRecords

\* A call that returns delivers every record it fetched.
ReturnedPagesDelivered ==
    pages.pc = "returned"
        => /\ pages.result.kind = "return"
           /\ pages.result.records = pages.allRecords

\* A slug made of lowercase letters, digits and '-' only.
SlugAlphabet(slug) == \A k \in 1..Len(slug) : IsSlugChar(slug[k]) \/ slug[k] = "-"

\* No two separators in a row, and none at the start.
SingleSeparators(slug) ==
    /\ \A k \in 1..(Len(slug) - 1) : ~(slug[k] = "-" /\ slug[k + 1] = "-")
    /\ slug # <<>> => slug[1] # "-"

\* Every slug is within the alphabet, has single separators, none leading,
\* and is at most 80 characters long.
SlugShape ==
    \A x \in 1..Len(slugs) :
        /\ SlugAlphabet(slugs[x].slug)
        /\ SingleSeparators(slugs[x].slug)
        /\ Len(slugs[x].slug) <= 80

\* C32: every slug generateSlug returns for a non-empty name consists of
\* lowercase letters, digits and single '-' separators, has no leading or
\* trailing separator and is at most 80 characters long.
C32_SlugWellFormed ==
    /\ SlugShape
    /\ \A x \in 1..Len(slugs) :
          slugs[x].slug # <<>> => slugs[x].slug[Len(slugs[x].slug)] # "-"

\* The slugs of names whose slug is shorter than the cap end in no separator.
ShortSlugsTrimmed ==
    \A x \in 1..Len(slugs) :
        (slugs[x].slug # <<>> /\ Len(slugs[x].slug) < 80)
            => slugs[x].slug[Len(slugs[x].slug)] # "-"

\* An issuer name that contains none of the classification keywords.
NoKeyword == detectName.t = "string" /\ ~IncludesAny(ToLowerCase(detectName.s), AllKeywords)

\* Without the tax-free flag of the record, which is no keyword of the name.
NotTaxFree == detectData.taxFree # Bool(TRUE) /\ detectData.taxFreeStatus # Str(<<"Y", "e", "s">>)

\* C33: for an issuer name with none of the classification keywords,
\* detectOwnershipType returns 'unknown' and detectBondType returns
\* 'corporate', and neither fails.
C33_InferenceFallsBack ==
    NoKeyword =>
        /\ detected.ownershipType \in {Pending, Returned("unknown")}
        /\ NotTaxFree => detected.bondsType \in {Pending, Returned("corporate")}

\* The bond type of such a name is 'corporate', and neither function throws
\* for a string or for an absent name.
BondTypeFallsBack ==
    /\ (NoKeyword /\ NotTaxFree) => detected.bondsType \in {Pending, Returned("corporate")}
    /\ detectName # NullValue
          => detected.ownershipType.kind # "throw" /\ detected.bondsType.kind # "throw"

\* The known agency names that prefix the cleaned string, after the
\* provisional qualifier when it stands before one.
AgenciesPrefixing(str) ==
    LET rest == IF StartsWith(str, PROVISIONAL) THEN Slice(str, Len(PROVISIONAL)) ELSE str
    IN  {a \in AgencyNames : StartsWith(rest, a)}

\* C34: when two known agency names both prefix the cleaned string, the
\* longer one is removed before the grade is matched, so the grade that
\* follows the longer name is the result.
C34_LongestAgencyNameStripped ==
    (normalized # NotNormalized /\ Cardinality(AgenciesPrefixing(CleanedRating(raw))) >= 2)
        => normalized = parts.grade

\* A cleaned string that a single known agency name prefixes, and one that
\* INDIARATING and INDIARATINGS both prefix, give the grade after the name.
SingleAgencyStripped ==
    (/\ normalized # NotNormalized
     /\ \/ Cardinality(AgenciesPrefixing(CleanedRating(raw))) = 1
        \/ <<"I", "N", "D", "I", "A", "R", "A", "T", "I", "N", "G", "S">>
                \in AgenciesPrefixing(CleanedRating(raw)))
        => normalized = parts.grade

\* C35: at most one syncBonds call started by runSync is in flight; a runSync
\* invoked while another run is in progress returns null and starts no
\* syncBonds, for every interleaving of the daily, weekly and startup runs.
C35_RunSyncMutuallyExclusive ==
    /\ Len(running) <= 1
    /\ sev.kind = "started" => sev.inFlightBefore = 0
    /\ (sev.kind \in {"started", "skipped"} /\ sev.inFlightBefore >= 1)
          => /\ sev.kind = "skipped"
             /\ sev.result = SyncNull
             /\ Len(running) = sev.inFlightBefore

\* A weekly run is skipped while the daily run awaits syncBonds.
C35_Witness ==
    /\ sev.kind = "skipped"
    /\ sev.type = "weekly"
    /\ Len(running) = 1
    /\ running[1].type = "daily"

\* C36: after a runSync that started a sync completes, whether syncBonds
\* resolved or rejected, isRunning is false, so that a later runSync is
\* skipped only while a sync is really in flight.
C36_RunGuardReleased ==
    /\ sev.kind \in {"completed", "failed"} => ~isRunning
    /\ isRunning <=> Len(running) = 1
    /\ sev.kind = "skipped" => sev.inFlightBefore >= 1

\* A run is started after the run before it failed.
C36_Witness ==
    /\ sev.kind = "failed"
    /\ ~isRunning
    /\ ENABLED (Sync_Run([type |-> "daily", deepSync |-> FALSE]) /\ sev'.kind = "started")

\* C37: after every execute() completion and every reset(), in any
\* interleaving, state = CLOSED implies failures < failureThreshold, and
\* state = OPEN or HALF_OPEN implies nextRetryTime is set.
C37_BreakerConsistent ==
    /\ state = "CLOSED" => failures < failureThreshold
    /\ state \in {"OPEN", "HALF_OPEN"} => nextRetryTime # Null

\* A call that was in flight when an OPEN breaker was reset fails afterwards.
C37_Witness ==
    /\ ev.type = "failure"
    /\ ev.sawReset
    /\ ev.enteredIn = "HALF_OPEN"
    /\ state = "CLOSED"
    /\ failures = 1

\* C38: each logical fetch increments stats.requests once and at most one of
\* stats.successes and stats.failures, once, so that in every reachable state
\* stats.successes + stats.failures <= stats.requests.
C38_StatsConsistent == stats.successes + stats.failures <= stats.requests

\* What a step that is a reset() does to the breaker, and what the execute()
\* that directly follows a reset() does.
ResetEffect ==
    /\ ev'.type = "reset"
          => /\ state' = "CLOSED"
             /\ failures' = 0
             /\ lastFailureTime' = Null
             /\ nextRetryTime' = Null
             /\ totalRequests' = totalRequests
             /\ successCount' = successCount
    /\ (ev.type = "reset" /\ ev'.type \in {"invoke", "reject"}) => ev'.type = "invoke"

FieldsOf(class) ==
    IF class = "CircuitBreaker" THEN {"failureThreshold", "resetTimeout"} ELSE ConfigFields

\* C40: every numeric option given to a constructor, 0 included, is the
\* value the instance uses; a default applies only to an absent option.
C40_ConfigValuesUsed ==
    instance # NotConstructed =>
        \A f \in FieldsOf(instance.class) :
            /\ config[f].t = "number" => instance.fields[f] = config[f]
            /\ config[f] = Undefined => instance.fields[f] = Defaults(instance.class)[f]

\* Every option that is a number other than 0 is used, and an absent or null
\* option gives the default.
NonZeroConfigValuesUsed ==
    instance # NotConstructed =>
        \A f \in FieldsOf(instance.class) :
            /\ (config[f].t = "number" /\ config[f] # IntNum(0))
                  => instance.fields[f] = config[f]
            /\ config[f] \in {Undefined, NullValue}
                  => instance.fields[f] = Defaults(instance.class)[f]
====
